---- MODULE Spec2Model ----
(***************************************************************************)
(* Model of the QuickJS-backed sandbox bridge                              *)
(* (native/quickjs/src/QuickJSSandboxJSI.{h,cpp}): one QuickJSSandboxRuntime*)
(* with the QuickJSSandboxContexts it creates, the engine's pending-job    *)
(* queue, host functions wrapped for the sandbox, and the native call      *)
(* stack on which host and sandbox calls nest.                             *)
(***************************************************************************)
EXTENDS Integers, Sequences, FiniteSets, TLC

\* ---- bounds of the model ------------------------------------------------
MaxCtx == 2        \* contexts one runtime creates
MaxJobs == 2       \* pending jobs queued at one time
MaxCallbacks == 2  \* host functions wrapped, all contexts together
MaxExports == 2    \* sandbox functions exported to the host, process-wide
MaxInits == 2      \* runtimes one WASM instance creates, one after another
MaxTimers == 2     \* timer ids one WASM instance hands out

CtxIds == 1..MaxCtx

\* ---- inputs --------------------------------------------------------------
\* What a pending job does when JS_ExecutePendingJob runs it: complete,
\* raise an exception (ret < 0), or complete after enqueueing a further job
\* (a promise reaction that schedules the next one; "respawn0" queues a
\* "respawn1" and the other way round, so that successive jobs differ).
\* A job may also be a promise reaction that is a host-function trampoline
\* ("call"): running the job calls the trampoline.
JobKinds == {"plain", "throw", "respawn0", "respawn1", "call"}

\* A pending job: what it does and, for a "call", the context and callback
\* id of the trampoline it holds.
Job(k) == [kind |-> k, ctx |-> 0, id |-> 0]
CallJob(c, i) == [kind |-> "call", ctx |-> c, id |-> i]

\* What the body of a host function does when the sandbox calls it: return
\* at once, or first call dispose() on its own Context or on the Runtime.
HostFns == {"ret", "ctxDispose", "rtDispose"}

\* Bodies that call back into the Context the host function was called from.
NestedFns == {"eval", "setGlobal", "getGlobal"}

\* Scripts handed to eval, by what the sandbox code does: yield a value,
\* raise an exception, call the global f; or queue a pending job.
CallScripts == {"value", "throw", "call_f"}
JobScripts == {"enqueue_plain", "enqueue_throw", "enqueue_respawn"}

\* Scripts that pass the global f to a promise as its reaction
\* (Promise.resolve().then(f)), and that assign a primitive to the global f.
ReactionScripts == {"enqueue_f"}
AssignScripts == {"assign_f"}

GlobalNames == {"f"}

\* Values a host caller passes to setGlobal.
HostValues == {"prim", "function"}

Undefined == [kind |-> "undefined", id |-> 0]
Primitive == [kind |-> "prim", id |-> 0]

\* The native callable JS_NewCFunctionData creates around the
\* HostFunctionData of callback id i.
Trampoline(i) == [kind |-> "hostfn", id |-> i]

\* ---- values that cross the bridge ----------------------------------------
\* A value, on the host side (jsi::Value) or in the sandbox (JSValue), by its
\* kind and content: a string is the sequence of its code units, an array
\* the sequence of its elements, a function its name.
Val(k, v) == [kind |-> k, val |-> v]

\* The code unit U+0000, which ends a C string.
NUL == 0

\* Strings the host passes: "", "a", "ab" and "a\0b".
Strings == {<<>>, <<97>>, <<97, 98>>, <<97, NUL, 98>>}
Numbers == {1, 2, 3, 21, 42}

\* The primitive values jsiToQJS has a branch for.
Primitives ==
  {Val("undefined", 0), Val("null", 0)} \cup
  {Val("bool", b) : b \in BOOLEAN} \cup
  {Val("number", n) : n \in Numbers} \cup
  {Val("string", t) : t \in Strings}

Symbols == {Val("symbol", <<97>>)}

\* Arrays of primitives and of such arrays: [], [1,2,3], ["a", true],
\* [undefined, null], [[1], []] and ["a\0b"].
PlainArrays ==
  {Val("array", <<>>),
   Val("array", <<Val("number", 1), Val("number", 2), Val("number", 3)>>),
   Val("array", <<Val("string", <<97>>), Val("bool", TRUE)>>),
   Val("array", <<Val("undefined", 0), Val("null", 0)>>),
   Val("array", <<Val("array", <<Val("number", 1)>>), Val("array", <<>>)>>)}
Arrays == PlainArrays \cup {Val("array", <<Val("string", <<97, NUL, 98>>)>>)}

\* Host functions by what they compute: twice their argument, their second
\* argument, the number of their arguments.
HostFunctions == {"double", "second", "count"}

\* Sandbox functions, likewise: function add(a, b) { return a + b } and
\* function second(a, b) { return b }.
SandboxFunctions == {"add", "second"}

\* What the host passes to setGlobal.
HostCallables == {Val("function", f) : f \in HostFunctions}
HostInputs == Primitives \cup Symbols \cup Arrays \cup HostCallables

\* The result of calling function f with the arguments a, which is the same
\* computation on either side of the bridge.
Apply(f, a) ==
  CASE f = "double" -> Val("number", 2 * a[1].val)
    [] f = "add" -> Val("number", a[1].val + a[2].val)
    [] f = "second" -> IF Len(a) >= 2 THEN a[2] ELSE Val("undefined", 0)
    [] f = "count" -> Val("number", Len(a))

\* The arguments function f is called with: numbers where it computes with
\* them, any values where it only passes them on.
ArgLists(f) ==
  CASE f = "double" -> {<<Val("number", 21)>>, <<Val("number", 1)>>}
    [] f = "add" -> {<<Val("number", 1), Val("number", 2)>>}
    [] OTHER -> {<<>>, <<Val("number", 1)>>,
                 <<Val("number", 1), Val("string", <<97>>)>>,
                 <<Val("string", <<97, 98>>), Val("bool", FALSE)>>,
                 <<Val("null", 0), Val("string", <<97, NUL, 98>>)>>}

\* jsi::String::utf8 with JS_NewStringLen: the bytes and their count, so
\* every code unit of the host string reaches the sandbox string.
JS_NewStringLen(t) == t

RECURSIVE CString(_)
\* A char buffer read as a C string, as std::string(const char *) reads the
\* result of JS_ToCString: the code units before the first NUL.
CString(t) ==
  IF t = <<>> \/ Head(t) = NUL THEN <<>> ELSE <<Head(t)>> \o CString(Tail(t))

\* jsi::String::createFromUtf8(rt, str) on the char buffer of JS_ToCString.
createFromUtf8(t) == CString(t)

\* jsi::Symbol::toString: "(" description ")" stands for Symbol(description).
SymbolToString(d) == <<40>> \o d \o <<41>>

RECURSIVE jsiToQJS(_)
\* QuickJSSandboxContext::jsiToQJS on a value that is no function (a
\* function goes through wrapFunctionForSandbox, see Wrap).
jsiToQJS(v) ==
  CASE v.kind \in {"undefined", "null", "bool", "number"} -> v
    [] v.kind = "string" -> Val("string", JS_NewStringLen(v.val))
    [] v.kind = "symbol" -> Val("string", JS_NewStringLen(SymbolToString(v.val)))
    [] v.kind = "function" -> Val("hostfn", v.val)
    [] v.kind = "array" ->
         Val("array", [i \in 1..Len(v.val) |-> jsiToQJS(v.val[i])])
    [] OTHER -> Val("undefined", 0)

RECURSIVE qjsToJSI(_)
\* QuickJSSandboxContext::qjsToJSI on a value that is no function (a
\* function becomes a proxy under a new export key, see Exported).
qjsToJSI(v) ==
  CASE v.kind \in {"undefined", "null", "bool", "number"} -> v
    [] v.kind \in {"string", "symbol"} ->
         Val("string", createFromUtf8(v.val))
    [] v.kind = "array" ->
         Val("array", [i \in 1..Len(v.val) |-> qjsToJSI(v.val[i])])
    [] OTHER -> Val("undefined", 0)

VARIABLES
  rt_disposed,   \* QuickJSSandboxRuntime::disposed_
  qjsRuntime,    \* QuickJSSandboxRuntime::qjsRuntime_: "live" or "null"
  contexts_,     \* QuickJSSandboxRuntime::contexts_ (owned contexts, in order)
  hostRtRef,     \* the host still references the Runtime host object
  ctx,           \* the QuickJSSandboxContext objects, by id
  jobs,          \* the engine's pending-job queue
  g_sandboxFuncCounter, \* the process-wide export-key counter
  stack,         \* native call stack of bridge calls in flight (top last)
  last,          \* outcome of the public operation that returned last
  log,           \* what Runtime::dispose did, in order (repeats collapsed)
  rtFrees,       \* times JS_FreeRuntime was called
  swallowed,     \* Runtime::dispose cleared the exception of a failed job
  stale,         \* kinds of use of a context handle that was no longer valid
  crashed,       \* the process died on such a use
  thread2,       \* what a second host thread is in the middle of
  options,       \* the argument createRuntime was called with
  timeout_,      \* QuickJSSandboxRuntime::timeout_
  sandbox,       \* one Context with the values that cross the bridge
  shim           \* the WASM instance of wasm_bindings.c: its statics, its
                 \* engine, and what its last exported call gave back

\* The variables only createRuntime, the marshaling of values and the WASM
\* shim touch.
wire == <<options, timeout_, sandbox, shim>>

vars == <<rt_disposed, qjsRuntime, contexts_, hostRtRef, ctx, jobs,
          g_sandboxFuncCounter, stack, last, log, rtFrees, swallowed, stale,
          crashed, thread2, wire>>

\* A Context object that was never constructed.
NoContext ==
  [obj |-> "none", disposed_ |-> FALSE, qjsContext_ |-> "none",
   callbacks_ |-> {}, callbackCounter_ |-> 0,
   globals |-> [n \in GlobalNames |-> Undefined], exported |-> {},
   proxies |-> {}, cyclic |-> {}, hostRef |-> FALSE, frees |-> 0]

\* QuickJSSandboxContext::QuickJSSandboxContext: a fresh scope, no callbacks.
NewContext ==
  [obj |-> "alive", disposed_ |-> FALSE, qjsContext_ |-> "live",
   callbacks_ |-> {}, callbackCounter_ |-> 0,
   globals |-> [n \in GlobalNames |-> Undefined], exported |-> {},
   proxies |-> {}, cyclic |-> {}, hostRef |-> TRUE, frees |-> 0]

NoCall == [op |-> "none", ctx |-> 0, pre |-> FALSE, out |-> "none",
           touched |-> FALSE]

\* The record of a public operation that returned: which one, whether its
\* object was disposed when it was called, how it ended (out), whether it
\* used the engine, and for createContext the Context it returned.
Call(o, c, p, r, t) ==
  [op |-> o, ctx |-> IF o = "createContext" THEN c ELSE 0, pre |-> p,
   out |-> r, touched |-> t]

Frame(o, c, p, f) == [op |-> o, ctx |-> c, pc |-> p, fn |-> f]

Top == stack[Len(stack)]
Pop == SubSeq(stack, 1, Len(stack) - 1)
AtTopLevel == stack = <<>> /\ ~crashed

Range(s) == {s[i] : i \in 1..Len(s)}

\* The second thread is between calls.
Idle == [pc |-> "idle", arg |-> 0]

\* ---- the WASM shim: state ------------------------------------------------
\* A null pointer.
NULL == 0

\* The global scope of a context JS_NewContext just made: no __timers object,
\* none of the shim's functions, x not defined.
NewGlobal ==
  [timers |-> [defined |-> FALSE, at |-> {}], fns |-> {},
   x |-> Val("undefined", 0)]

\* The statics of wasm_bindings.c as the WASM instance starts: no runtime, no
\* context, no host callback, no timer id handed out.  made counts the
\* runtimes JS_NewRuntime created, which numbers them; returned lists the ids
\* setTimeout returned and spent holds the ids of the timers that were fired
\* or cleared; the other fields from op on describe the exported call that
\* returned last.
NoShim ==
  [g_runtime |-> NULL, g_context |-> NULL, g_host_callback |-> FALSE,
   g_timer_id |-> 0, made |-> 0, global |-> NewGlobal, jobs |-> <<>>,
   op |-> "none", ret |-> 0, str |-> <<>>, touched |-> FALSE,
   arg |-> 0, calls |-> <<>>, returned |-> <<>>, spent |-> {},
   executed |-> 0, jobFailed |-> FALSE]

\* createRuntime called with no argument.
NoOptions ==
  [count |-> 0, isObject |-> FALSE, hasTimeout |-> FALSE,
   timeout |-> Val("undefined", 0)]

\* The timeout createRuntime passes on when it was given none.
DefaultTimeout == 30000

\* A new Context at the level of values: no global is defined, no function
\* was exported, and the call that returned last (none yet) has invoked no
\* host function (called) and run no sandbox function (ran). For each
\* global, passed is the host value of the setGlobal that wrote it last, if
\* it was written so.
NewSandbox ==
  [global |-> [n \in GlobalNames |-> Val("undefined", 0)],
   passed |-> [n \in GlobalNames |-> Val("none", 0)],
   exported |-> <<>>, out |-> "none", ret |-> Val("undefined", 0),
   called |-> <<>>, ran |-> <<>>]

\* What the host may pass to createRuntime: nothing, something that is not an
\* object, or an object with or without a timeout property, numeric or not.
Opts(n, o, h, v) == [count |-> n, isObject |-> o, hasTimeout |-> h,
                     timeout |-> v]
OptionInputs ==
  {NoOptions, Opts(1, FALSE, FALSE, Val("undefined", 0)),
   Opts(1, TRUE, FALSE, Val("undefined", 0)),
   Opts(1, TRUE, TRUE, Val("string", <<49, 48>>)),
   Opts(1, TRUE, TRUE, Val("number", 0)),
   Opts(1, TRUE, TRUE, Val("number", 100))}

\* The createRuntime lambda: the timeout it hands to the Runtime.
StoredTimeout(o) ==
  IF o.count > 0 /\ o.isObject
    THEN IF o.hasTimeout
           THEN IF o.timeout.kind = "number"
                  THEN o.timeout.val
                  ELSE DefaultTimeout
           ELSE DefaultTimeout
    ELSE DefaultTimeout

\* The Runtime as createRuntime(o) constructs it.
Constructed(o) ==
  /\ rt_disposed = FALSE
  /\ qjsRuntime = "live"
  /\ contexts_ = <<>>
  /\ hostRtRef = TRUE
  /\ ctx = [c \in CtxIds |-> NoContext]
  /\ jobs = <<>>
  /\ g_sandboxFuncCounter = 0
  /\ stack = <<>>
  /\ last = NoCall
  /\ log = <<>>
  /\ rtFrees = 0
  /\ swallowed = FALSE
  /\ stale = {}
  /\ crashed = FALSE
  /\ thread2 = Idle
  /\ options = o
  /\ timeout_ = StoredTimeout(o)
  /\ sandbox = NewSandbox
  /\ shim = NoShim

Init == Constructed(NoOptions)

\* The Runtime constructed with any of the options.
InitOptions == \E o \in OptionInputs : Constructed(o)

RuntimeDisposedNever == FALSE

\* The disposed_ guard that opens Runtime::dispose and createContext.
RuntimeDisposed == rt_disposed

ThrowsDisposedNever(r) == FALSE

\* The disposed_ guard that opens eval, setGlobal and getGlobal.
ThrowsDisposed(r) == r.disposed_

RegisteredNowhere(list, c) == list

\* contexts_.push_back(context)
Registered(list, c) == Append(list, c)

\* QuickJSSandboxRuntime::createContext; JS_NewContext may fail (ok = FALSE),
\* and then the constructor throws before anything is registered.
CreateContext ==
  /\ AtTopLevel
  /\ hostRtRef
  /\ IF RuntimeDisposed
       THEN /\ last' = Call("createContext", 0, rt_disposed, "Disposed", FALSE)
            /\ UNCHANGED <<ctx, contexts_>>
       ELSE \E ok \in BOOLEAN :
              LET c == Len(contexts_) + 1 IN
              /\ c \in CtxIds
              /\ IF ok
                   THEN /\ ctx' = [ctx EXCEPT ![c] = NewContext]
                        /\ contexts_' = Registered(contexts_, c)
                        /\ last' = Call("createContext", c, rt_disposed,
                                        "ok", TRUE)
                   ELSE /\ last' = Call("createContext", 0, rt_disposed,
                                        "EngineConstructionFailure", FALSE)
                        /\ UNCHANGED <<ctx, contexts_>>
  /\ UNCHANGED <<rt_disposed, qjsRuntime, hostRtRef, jobs,
                 g_sandboxFuncCounter, stack, log, rtFrees, swallowed, stale,
                 crashed, thread2, wire>>

DisposedUnguarded(r) ==
  [r EXCEPT !.disposed_ = TRUE,
            !.callbacks_ = {},
            !.qjsContext_ = "null",
            !.frees = @ + 1,
            !.globals = [n \in GlobalNames |-> Undefined],
            !.exported = {}]

\* QuickJSSandboxContext::dispose, as the Context object it leaves behind.
Disposed(r) ==
  IF r.disposed_
    THEN r
    ELSE [r EXCEPT !.disposed_ = TRUE,
                   !.callbacks_ = {},
                   !.qjsContext_ = "null",
                   !.frees = @ + 1,
                   !.globals = [n \in GlobalNames |-> Undefined],
                   !.exported = {}]

CtxDisposeAll(c) ==
  /\ AtTopLevel
  /\ ctx[c].obj = "alive" /\ ctx[c].hostRef
  /\ ctx' = [d \in CtxIds |->
               IF ctx[d].obj = "alive" THEN Disposed(ctx[d]) ELSE ctx[d]]
  /\ last' = Call("ctxDispose", c, ctx[c].disposed_, "ok", ~ctx[c].disposed_)
  /\ UNCHANGED <<rt_disposed, qjsRuntime, contexts_, hostRtRef, jobs,
                 g_sandboxFuncCounter, stack, log, rtFrees, swallowed, stale,
                 crashed, thread2, wire>>

\* ctx.dispose() called by the host.
CtxDispose(c) ==
  /\ AtTopLevel
  /\ ctx[c].obj = "alive" /\ ctx[c].hostRef
  /\ ctx' = [ctx EXCEPT ![c] = Disposed(ctx[c])]
  /\ last' = Call("ctxDispose", c, ctx[c].disposed_, "ok", ~ctx[c].disposed_)
  /\ UNCHANGED <<rt_disposed, qjsRuntime, contexts_, hostRtRef, jobs,
                 g_sandboxFuncCounter, stack, log, rtFrees, swallowed, stale,
                 crashed, thread2, wire>>

\* A sandbox value is still referenced from the sandbox global object: it
\* is the value of a global or of an export-key property.
Rooted(r, v) ==
  \/ \E e \in r.exported : e.val = v
  \/ \E n \in GlobalNames : r.globals[n] = v

\* The trampoline of callback id i of context c is the reaction of a pending
\* job, or is being called on the native stack stk.
Pinned(c, i, q, stk) ==
  \/ \E k \in 1..Len(q) : q[k] = CallJob(c, i)
  \/ \E k \in 1..Len(stk) :
       stk[k].op = "host" /\ stk[k].ctx = c /\ stk[k].fn.id = i

FinalizedAll(r, v) ==
  IF v.kind = "hostfn" /\ ~Rooted(r, v) /\ ~r.disposed_
    THEN [r EXCEPT !.callbacks_ = {}]
    ELSE r

\* hostFunctionDataFinalizer, run when the sandbox engine reclaims the
\* trampoline v: the registry entry goes unless the context is disposed.
Finalized(r, v) ==
  IF v.kind = "hostfn" /\ ~Rooted(r, v) /\ ~r.disposed_
    THEN [r EXCEPT !.callbacks_ = @ \ {v.id}]
    ELSE r

\* The sandbox gives up a reference to the value v of context c (r is the
\* Context object): the engine counts references, so v is reclaimed at once
\* if that was the last one. A trampoline that is part of a reference cycle
\* (r.cyclic) keeps a count above zero and is left to the cycle collector.
Unref(c, r, v, q, stk) ==
  IF Pinned(c, v.id, q, stk) \/ v.id \in r.cyclic THEN r ELSE Finalized(r, v)

RECURSIVE WrapsUpTo(_)
\* The host functions wrapped so far in the contexts 1..c.
WrapsUpTo(c) ==
  IF c = 0 THEN 0 ELSE ctx[c].callbackCounter_ + WrapsUpTo(c - 1)

\* A value of kind b can still cross into a sandbox within the bound.
CanCross(b) == b = "function" => WrapsUpTo(MaxCtx) < MaxCallbacks

\* wrapFunctionForSandbox: a new callback id, a registry entry, a trampoline.
Wrapped(r) ==
  [r EXCEPT !.callbackCounter_ = @ + 1,
            !.callbacks_ = @ \cup {r.callbackCounter_ + 1}]

\* What qjsToJSI hands to the host for the sandbox value v.
Marshaled(v) ==
  CASE v.kind = "undefined" -> "undefined"
    [] v.kind = "prim" -> "prim"
    [] v.kind = "hostfn" -> "function"

\* The body of setGlobal past its guard, as the Context object it leaves:
\* jsiToQJS wraps a function, JS_SetPropertyStr drops the old value.
GlobalSet(c, n, b) ==
  LET old == ctx[c].globals[n]
      w == IF b = "function" THEN Wrapped(ctx[c]) ELSE ctx[c]
      v == IF b = "function" THEN Trampoline(w.callbackCounter_) ELSE Primitive
      set == [w EXCEPT !.globals[n] = v]
  IN Unref(c, set, old, jobs, stack)

\* The body of getGlobal past its guard: qjsToJSI roots a function value
\* under the export key k (JS_SetPropertyStr, which drops what the property
\* held) and hands the host a proxy that captures the key; other values are
\* copied.
GlobalGot(c, n, k) ==
  LET v == ctx[c].globals[n]
      held == {e \in ctx[c].exported : e.key = k}
      set == [ctx[c] EXCEPT
                !.exported = (@ \ held) \cup {[key |-> k, val |-> v]},
                !.proxies = @ \cup {k}]
  IN IF v.kind # "hostfn"
       THEN ctx[c]
       ELSE IF held = {}
              THEN set
              ELSE Unref(c, set, (CHOOSE e \in held : TRUE).val, jobs, stack)

SetGlobalShared(c, n, b) ==
  /\ AtTopLevel
  /\ ctx[c].obj = "alive" /\ ctx[c].hostRef
  /\ ~ThrowsDisposed(ctx[c])
  /\ CanCross(b)
  /\ ctx' = [d \in CtxIds |->
               IF d = c
                 THEN GlobalSet(c, n, b)
                 ELSE [ctx[d] EXCEPT !.globals[n] = GlobalSet(c, n, b).globals[n]]]
  /\ last' = Call("setGlobal", c, ctx[c].disposed_, "ok", TRUE)
  /\ UNCHANGED <<rt_disposed, qjsRuntime, contexts_, hostRtRef, jobs,
                 g_sandboxFuncCounter, stack, log, rtFrees, swallowed, stale,
                 crashed, thread2, wire>>

\* QuickJSSandboxContext::setGlobal with a primitive or a host function.
SetGlobal(c, n, b) ==
  /\ AtTopLevel
  /\ ctx[c].obj = "alive" /\ ctx[c].hostRef
  /\ IF ThrowsDisposed(ctx[c])
       THEN /\ last' = Call("setGlobal", c, ctx[c].disposed_, "Disposed",
                            FALSE)
            /\ UNCHANGED ctx
       ELSE /\ CanCross(b)
            /\ ctx' = [ctx EXCEPT ![c] = GlobalSet(c, n, b)]
            /\ last' = Call("setGlobal", c, ctx[c].disposed_, "ok", TRUE)
  /\ UNCHANGED <<rt_disposed, qjsRuntime, contexts_, hostRtRef, jobs,
                 g_sandboxFuncCounter, stack, log, rtFrees, swallowed, stale,
                 crashed, thread2, wire>>

\* QuickJSSandboxContext::getGlobal.
GetGlobal(c, n) ==
  /\ AtTopLevel
  /\ ctx[c].obj = "alive" /\ ctx[c].hostRef
  /\ IF ThrowsDisposed(ctx[c])
       THEN /\ last' = Call("getGlobal", c, ctx[c].disposed_, "Disposed",
                            FALSE)
            /\ UNCHANGED <<ctx, g_sandboxFuncCounter>>
       ELSE LET v == ctx[c].globals[n] IN
            /\ last' = Call("getGlobal", c, ctx[c].disposed_, Marshaled(v),
                            TRUE)
            /\ IF v.kind = "hostfn"
                 THEN /\ g_sandboxFuncCounter < MaxExports
                      /\ g_sandboxFuncCounter' = g_sandboxFuncCounter + 1
                      /\ ctx' = [ctx EXCEPT ![c] =
                                   GlobalGot(c, n, g_sandboxFuncCounter + 1)]
                 ELSE UNCHANGED <<ctx, g_sandboxFuncCounter>>
  /\ UNCHANGED <<rt_disposed, qjsRuntime, contexts_, hostRtRef, jobs,
                 stack, log, rtFrees, swallowed, stale, crashed, thread2, wire>>

\* How a use of context c's engine handle goes wrong, if it does: the
\* handle was released by JS_FreeContext, or the engine instance it lives in
\* was freed by JS_FreeRuntime.
StaleKinds(c) ==
  (IF ctx[c].qjsContext_ # "live" THEN {"released"} ELSE {}) \cup
  (IF qjsRuntime # "live" THEN {"engineFreed"} ELSE {})

PendingDrained(q) == <<>>

\* The pending-job queue q as eval leaves it: eval returns without running
\* JS_ExecutePendingJob.
Pending(q) == q

JobOf(s) ==
  CASE s = "enqueue_plain" -> Job("plain")
    [] s = "enqueue_throw" -> Job("throw")
    [] s = "enqueue_respawn" -> Job("respawn0")

\* hostFunctionCallback entered for the trampoline of callback id i of
\* context c: a frame on the native stack. It reads the host function from
\* the trampoline's own HostFunctionData; reg records whether callbacks_
\* still had the entry.
Invoked(c, i) ==
  Frame("host", c, "body",
        [id |-> i, reg |-> (i \in ctx[c].callbacks_), body |-> "none"])

\* QuickJSSandboxContext::eval. A script that calls the global f, a host
\* function, leaves the eval in flight below the trampoline's frame.
Eval(c, s) ==
  /\ AtTopLevel
  /\ ctx[c].obj = "alive" /\ ctx[c].hostRef
  /\ LET pre == ctx[c].disposed_
         f == ctx[c].globals["f"]
     IN
     IF ThrowsDisposed(ctx[c])
       THEN /\ last' = Call("eval", c, pre, "Disposed", FALSE)
            /\ UNCHANGED <<jobs, stack, ctx>>
       ELSE CASE s = "value" ->
                   /\ last' = Call("eval", c, pre, "ok", TRUE)
                   /\ UNCHANGED <<jobs, stack, ctx>>
              [] s = "throw" ->
                   /\ last' = Call("eval", c, pre, "EvaluationError", TRUE)
                   /\ UNCHANGED <<jobs, stack, ctx>>
              [] s = "call_f" ->
                   IF f.kind = "hostfn"
                     THEN /\ stack' = <<Frame("eval", c, "called", pre),
                                        Invoked(c, f.id)>>
                          /\ UNCHANGED <<last, jobs, ctx>>
                     ELSE /\ last' = Call("eval", c, pre, "EvaluationError",
                                          TRUE)
                          /\ UNCHANGED <<jobs, stack, ctx>>
              [] s = "enqueue_f" ->
                   /\ Len(jobs) < MaxJobs
                   /\ jobs' = Pending(Append(jobs, IF f.kind = "hostfn"
                                                     THEN CallJob(c, f.id)
                                                     ELSE Job("plain")))
                   /\ last' = Call("eval", c, pre, "ok", TRUE)
                   /\ UNCHANGED <<stack, ctx>>
              [] s = "assign_f" ->
                   /\ ctx' = [ctx EXCEPT ![c] = GlobalSet(c, "f", "prim")]
                   /\ last' = Call("eval", c, pre, "ok", TRUE)
                   /\ UNCHANGED <<jobs, stack>>
              [] s = "delete_export" ->
                   /\ IF ctx[c].exported = {}
                        THEN UNCHANGED ctx
                        ELSE \E e \in ctx[c].exported :
                               ctx' = [ctx EXCEPT ![c] =
                                         Unref(c, [ctx[c] EXCEPT
                                                     !.exported = @ \ {e}],
                                               e.val, jobs, stack)]
                   /\ last' = Call("eval", c, pre, "ok", TRUE)
                   /\ UNCHANGED <<jobs, stack>>
              [] s = "cycle_f" ->
                   /\ ctx' = [ctx EXCEPT ![c].cyclic =
                                IF f.kind = "hostfn" THEN @ \cup {f.id}
                                ELSE @]
                   /\ last' = Call("eval", c, pre,
                                   IF f.kind = "undefined"
                                     THEN "EvaluationError" ELSE "ok", TRUE)
                   /\ UNCHANGED <<jobs, stack>>
              [] OTHER ->
                   /\ Len(jobs) < MaxJobs
                   /\ jobs' = Pending(Append(jobs, JobOf(s)))
                   /\ last' = Call("eval", c, pre, "ok", TRUE)
                   /\ UNCHANGED <<stack, ctx>>
  /\ UNCHANGED <<rt_disposed, qjsRuntime, contexts_, hostRtRef,
                 g_sandboxFuncCounter, log, rtFrees, swallowed, stale,
                 crashed, thread2, wire>>

LookupAny(r, k) == r.exported

\* JS_GetPropertyStr(global, capturedKey) in the proxy: what the sandbox
\* global object of the Context r holds under the export key k.
Lookup(r, k) == {e \in r.exported : e.key = k}

\* The sandbox-function proxy the host got for export key k of context c is
\* called (the lambda qjsToJSI creates). The Context object it captured by
\* address may have been destroyed: what the read of its disposed_ yields is
\* then undefined, the call raises Disposed or the process dies.
ProxyCall(c, k) ==
  /\ AtTopLevel
  /\ k \in ctx[c].proxies
  /\ LET pre == ctx[c].disposed_
         fns == Lookup(ctx[c], k)
     IN
     CASE ctx[c].obj = "destroyed" ->
            /\ stale' = stale \cup {"destroyed"}
            /\ \/ /\ last' = Call("proxy", c, pre, "Disposed", FALSE)
                  /\ UNCHANGED crashed
               \/ /\ crashed' = TRUE
                  /\ UNCHANGED last
            /\ UNCHANGED stack
       [] ctx[c].obj # "destroyed" /\ ThrowsDisposed(ctx[c]) ->
            /\ last' = Call("proxy", c, pre, "Disposed", FALSE)
            /\ UNCHANGED <<stack, stale, crashed>>
       [] ctx[c].obj # "destroyed" /\ ~ThrowsDisposed(ctx[c]) ->
            IF fns = {}
              THEN /\ last' = Call("proxy", c, pre, "NotFound", TRUE)
                   /\ UNCHANGED <<stack, stale, crashed>>
              ELSE /\ stack' = <<Frame("proxy", c, "called", pre),
                                 Invoked(c, (CHOOSE e \in fns : TRUE).val.id)>>
                   /\ UNCHANGED <<last, stale, crashed>>
  /\ UNCHANGED <<rt_disposed, qjsRuntime, contexts_, hostRtRef, ctx, jobs,
                 g_sandboxFuncCounter, log, rtFrees, swallowed, thread2, wire>>

DisposePhasesContextsFirst == <<"contexts", "drain", "free">>

DisposePhasesFreeEarly == <<"drain", "free", "contexts">>

\* The order of the three parts of QuickJSSandboxRuntime::dispose.
DisposePhases == <<"drain", "contexts", "free">>

\* The frame of a Runtime::dispose that passed its disposed_ guard, with the
\* value disposed_ had when it was called.
Entered(pre) == Frame("rtDispose", 0, 1, pre)

OnJobErrorAborts(stk) == SubSeq(stk, 1, Len(stk) - 1)

\* What the drain loop does with a job that failed (ret < 0): the
\* exception is cleared and the loop goes on, dispose() stays in flight.
OnJobError(stk) == stk

\* The thread that runs the native stack holds the mutex_ of context c: an
\* eval or a proxy call on c is in flight.
HeldByStack(c) ==
  \E k \in 1..Len(stack) :
    stack[k].op \in {"eval", "proxy"} /\ stack[k].ctx = c

NonRecursive(c) == ~HeldByStack(c)

\* std::lock_guard<std::recursive_mutex> in a call made by the thread that
\* runs the native stack: the lock is taken whether or not that thread
\* already holds it.
Reenters(c) == TRUE

\* The body b of a host function runs (data->func->call in
\* hostFunctionCallback). A body that calls eval, setGlobal or getGlobal on
\* its own Context takes that Context's lock first; the nested call raises
\* Disposed into the body when the Context is disposed.
HostBody(b) ==
  /\ ~crashed /\ stack # <<>>
  /\ Top.op = "host" /\ Top.pc = "body"
  /\ LET c == Top.ctx
         ran == [stack EXCEPT ![Len(stack)].fn.body = b]
         done == [ran EXCEPT ![Len(ran)].pc = "done"]
         threw == [ran EXCEPT ![Len(ran)].pc = "threw"]
         blocked == [ran EXCEPT ![Len(ran)].pc = "blocked"]
     IN CASE b = "ret" ->
               /\ stack' = done
               /\ UNCHANGED <<ctx, rt_disposed, g_sandboxFuncCounter>>
          [] b = "ctxDispose" ->
               /\ ctx' = [ctx EXCEPT ![c] = Disposed(ctx[c])]
               /\ stack' = done
               /\ UNCHANGED <<rt_disposed, g_sandboxFuncCounter>>
          [] b = "rtDispose" ->
               /\ rt_disposed' = TRUE
               /\ stack' = IF RuntimeDisposed
                             THEN done
                             ELSE Append(done, Entered(rt_disposed))
               /\ UNCHANGED <<ctx, g_sandboxFuncCounter>>
          [] b \in NestedFns /\ ~Reenters(c) ->
               /\ stack' = blocked
               /\ UNCHANGED <<ctx, rt_disposed, g_sandboxFuncCounter>>
          [] b \in NestedFns /\ Reenters(c) /\ ThrowsDisposed(ctx[c]) ->
               /\ stack' = threw
               /\ UNCHANGED <<ctx, rt_disposed, g_sandboxFuncCounter>>
          [] b = "eval" /\ Reenters(c) /\ ~ThrowsDisposed(ctx[c]) ->
               /\ stack' = done
               /\ UNCHANGED <<ctx, rt_disposed, g_sandboxFuncCounter>>
          [] b = "setGlobal" /\ Reenters(c) /\ ~ThrowsDisposed(ctx[c]) ->
               \E v \in HostValues :
                 /\ CanCross(v)
                 /\ ctx' = [ctx EXCEPT ![c] = GlobalSet(c, "f", v)]
                 /\ stack' = done
                 /\ UNCHANGED <<rt_disposed, g_sandboxFuncCounter>>
          [] b = "getGlobal" /\ Reenters(c) /\ ~ThrowsDisposed(ctx[c]) ->
               /\ IF ctx[c].globals["f"].kind = "hostfn"
                    THEN /\ g_sandboxFuncCounter < MaxExports
                         /\ g_sandboxFuncCounter' = g_sandboxFuncCounter + 1
                         /\ ctx' = [ctx EXCEPT ![c] =
                                      GlobalGot(c, "f",
                                                g_sandboxFuncCounter + 1)]
                    ELSE UNCHANGED <<ctx, g_sandboxFuncCounter>>
               /\ stack' = done
               /\ UNCHANGED rt_disposed
  /\ UNCHANGED <<qjsRuntime, contexts_, hostRtRef, jobs, last, log, rtFrees,
                 swallowed, stale, crashed, thread2, wire>>

\* The native stack stk once the trampoline on top of the stack has
\* returned to its caller: an eval or a proxy call goes on with the
\* outcome p of the sandbox call, the drain loop with its next job.
Resumed(stk, p) ==
  IF stk # <<>> /\ stk[Len(stk)].op \in {"eval", "proxy"}
    THEN [stk EXCEPT ![Len(stk)].pc = p]
    ELSE stk

\* hostFunctionCallback after the host function returned or threw. A result
\* is marshaled with the context's handle and the sandbox code resumes in
\* it; the calling sandbox code discards the value. For a function result
\* jsiToQJS calls wrapFunctionForSandbox, which adds the registry entry and
\* then creates the trampoline through the handle: with the handle null the
\* process dies there. What the host function threw is caught and raised
\* in the sandbox as an internal error; a job it ends fails.
HostReturn ==
  /\ ~crashed /\ stack # <<>>
  /\ Top.op = "host" /\ Top.pc \in {"done", "threw"}
  /\ LET c == Top.ctx
         f == Trampoline(Top.fn.id)
         fromJob == Len(stack) > 1 /\ stack[Len(stack) - 1].op = "rtDispose"
     IN IF Top.pc = "threw"
          THEN /\ stack' = IF fromJob
                             THEN OnJobError(Pop)
                             ELSE Resumed(Pop, "raised")
               /\ ctx' = [ctx EXCEPT ![c] = Unref(c, ctx[c], f, jobs, Pop)]
               /\ swallowed' = (swallowed \/ fromJob)
               /\ UNCHANGED <<stale, crashed>>
          ELSE \E v \in HostValues :
                 LET w == IF v = "function" THEN Wrapped(ctx[c]) ELSE ctx[c]
                     res == IF v = "function"
                              THEN Trampoline(w.callbackCounter_)
                              ELSE Primitive
                     dropped == Unref(c, w, res, jobs, Pop)
                 IN /\ CanCross(v)
                    /\ stale' = stale \cup StaleKinds(c)
                    /\ \/ /\ v = "function" => ctx[c].qjsContext_ = "live"
                          /\ stack' = Resumed(Pop, "resumed")
                          /\ ctx' = [ctx EXCEPT ![c] =
                                       Unref(c, dropped, f, jobs, Pop)]
                          /\ UNCHANGED crashed
                       \/ /\ StaleKinds(c) # {}
                          /\ crashed' = TRUE
                          /\ ctx' = [ctx EXCEPT ![c] = w]
                          /\ UNCHANGED stack
                    /\ UNCHANGED swallowed
  /\ UNCHANGED <<rt_disposed, qjsRuntime, contexts_, hostRtRef, jobs,
                 g_sandboxFuncCounter, last, log, rtFrees, thread2, wire>>

\* The tail of eval (o = "eval") or of a proxy call (o = "proxy") once the
\* sandbox call has returned: an exception becomes an error of the call,
\* a completion value is marshaled and freed with the context's handle.
Return(o) ==
  /\ ~crashed /\ stack # <<>>
  /\ Top.op = o /\ Top.pc \in {"resumed", "raised"}
  /\ stale' = stale \cup StaleKinds(Top.ctx)
  /\ \/ /\ stack' = Pop
        /\ last' = Call(o, Top.ctx, Top.fn,
                        IF Top.pc = "raised" THEN "EvaluationError" ELSE "ok",
                        TRUE)
        /\ UNCHANGED crashed
     \/ /\ StaleKinds(Top.ctx) # {}
        /\ crashed' = TRUE
        /\ UNCHANGED <<stack, last>>
  /\ UNCHANGED <<rt_disposed, qjsRuntime, contexts_, hostRtRef, ctx, jobs,
                 g_sandboxFuncCounter, log, rtFrees, swallowed, thread2, wire>>

EvalReturn == Return("eval")

ProxyReturn == Return("proxy")

\* The record of what Runtime::dispose did, extended by the event e.
Logged(e) == IF log # <<>> /\ log[Len(log)] = e THEN log ELSE Append(log, e)

\* ~QuickJSSandboxContext (which calls dispose()) once neither the host nor
\* the Runtime's contexts_ holds the Context object.
Released(r, owned) ==
  IF r.obj # "alive" \/ r.hostRef \/ owned
    THEN r
    ELSE [Disposed(r) EXCEPT !.obj = "destroyed"]

\* JS_ExecutePendingJob on a non-empty queue: the first job runs and leaves
\* the queue; a respawning job enqueues its successor while it runs.
Drained(q) ==
  CASE Head(q).kind = "respawn0" -> Append(Tail(q), Job("respawn1"))
    [] Head(q).kind = "respawn1" -> Append(Tail(q), Job("respawn0"))
    [] OTHER -> Tail(q)

\* The cycle collector that JS_FreeRuntime runs reclaims the trampolines
\* left in reference cycles; hostFunctionDataFinalizer runs for each and
\* removes its registry entry unless the context is disposed.
Collected(r) ==
  [r EXCEPT !.cyclic = {},
            !.callbacks_ = IF r.disposed_ THEN @ ELSE @ \ r.cyclic]

\* hostFunctionDataFinalizer reads data->self->disposed_ through its raw
\* back-reference: some trampoline still to be reclaimed belongs to a
\* Context object that has been destroyed.
FinalizerDangles ==
  \E c \in CtxIds : ctx[c].obj = "destroyed" /\ ctx[c].cyclic # {}

\* rt.dispose() called by the host.
RtDispose ==
  /\ AtTopLevel
  /\ hostRtRef
  /\ rt_disposed' = TRUE
  /\ IF RuntimeDisposed
       THEN /\ last' = Call("rtDispose", 0, rt_disposed, "ok", FALSE)
            /\ UNCHANGED stack
       ELSE /\ stack' = <<Entered(rt_disposed)>>
            /\ UNCHANGED last
  /\ UNCHANGED <<qjsRuntime, contexts_, hostRtRef, ctx, jobs,
                 g_sandboxFuncCounter, log, rtFrees, swallowed, stale,
                 crashed, thread2, wire>>

\* The host drops its last reference to the Runtime object:
\* ~QuickJSSandboxRuntime calls dispose().
DropRuntime ==
  /\ AtTopLevel
  /\ hostRtRef
  /\ hostRtRef' = FALSE
  /\ rt_disposed' = TRUE
  /\ IF RuntimeDisposed
       THEN /\ last' = Call("rtDispose", 0, rt_disposed, "ok", FALSE)
            /\ UNCHANGED stack
       ELSE /\ stack' = <<Entered(rt_disposed)>>
            /\ UNCHANGED last
  /\ UNCHANGED <<qjsRuntime, contexts_, ctx, jobs, g_sandboxFuncCounter,
                 log, rtFrees, swallowed, stale, crashed, thread2, wire>>

\* One step of Runtime::dispose in flight: one JS_ExecutePendingJob of the
\* drain loop, or the loop over contexts_ with contexts_.clear(), or
\* JS_FreeRuntime. After the last part the call returns.
RtDisposeStep ==
  /\ ~crashed /\ stack # <<>>
  /\ Top.op = "rtDispose"
  /\ LET phase == DisposePhases[Top.pc]
         next == IF Top.pc = Len(DisposePhases)
                   THEN Pop
                   ELSE [stack EXCEPT ![Len(stack)].pc = @ + 1]
         returned(stk) == IF stk = <<>>
                            THEN Call("rtDispose", 0, Top.fn, "ok", TRUE)
                            ELSE last
     IN CASE phase = "drain" ->
               IF qjsRuntime = "live" /\ jobs # <<>>
                 THEN LET j == Head(jobs)
                          stk == CASE j.kind = "throw" -> OnJobError(stack)
                                   [] j.kind = "call" ->
                                        Append(stack, Invoked(j.ctx, j.id))
                                   [] OTHER -> stack
                      IN /\ jobs' = Drained(jobs)
                         /\ log' = Logged("job")
                         /\ swallowed' = (swallowed \/ j.kind = "throw")
                         /\ stack' = stk
                         /\ last' = returned(stk)
                         /\ UNCHANGED <<ctx, contexts_, qjsRuntime, rtFrees,
                                        stale, crashed>>
                 ELSE /\ stack' = next
                      /\ last' = returned(next)
                      /\ UNCHANGED <<jobs, log, ctx, contexts_, qjsRuntime,
                                     rtFrees, swallowed, stale, crashed>>
          [] phase = "contexts" ->
               /\ ctx' = [c \in CtxIds |->
                            IF c \in Range(contexts_)
                              THEN Released(Disposed(ctx[c]), FALSE)
                              ELSE ctx[c]]
               /\ contexts_' = <<>>
               /\ log' = Logged("contexts")
               /\ stack' = next
               /\ last' = returned(next)
               /\ UNCHANGED <<jobs, qjsRuntime, rtFrees, swallowed, stale,
                              crashed>>
          [] phase = "free" ->
               /\ IF qjsRuntime = "live"
                    THEN /\ qjsRuntime' = "null"
                         /\ rtFrees' = rtFrees + 1
                         /\ log' = Logged("free")
                         /\ ctx' = [c \in CtxIds |-> Collected(ctx[c])]
                         /\ IF FinalizerDangles
                              THEN /\ stale' = stale \cup {"finalizer"}
                                   /\ crashed' \in BOOLEAN
                              ELSE UNCHANGED <<stale, crashed>>
                    ELSE UNCHANGED <<qjsRuntime, rtFrees, log, ctx, stale,
                                     crashed>>
               /\ stack' = next
               /\ last' = returned(next)
               /\ UNCHANGED <<jobs, contexts_, swallowed>>
  /\ UNCHANGED <<rt_disposed, hostRtRef, g_sandboxFuncCounter, thread2,
                 wire>>

\* The host drops its reference to a Context object; the object is destroyed
\* if the Runtime's contexts_ no longer holds it either.
DropContext(c) ==
  /\ AtTopLevel
  /\ ctx[c].obj = "alive" /\ ctx[c].hostRef
  /\ ctx' = [ctx EXCEPT ![c] =
               Released([ctx[c] EXCEPT !.hostRef = FALSE],
                        c \in Range(contexts_))]
  /\ UNCHANGED <<rt_disposed, qjsRuntime, contexts_, hostRtRef, jobs,
                 g_sandboxFuncCounter, stack, last, log, rtFrees, swallowed,
                 stale, crashed, thread2, wire>>

AcquirableAlways(c) == TRUE

\* std::lock_guard on the mutex_ of context c in a call made by the second
\* thread: it gets the lock only while the thread that runs the native
\* stack does not hold it.
Acquirable(c) == ~HeldByStack(c)

\* The second thread calls dispose() on context c and reaches the lock.
ThreadDispose(c) ==
  /\ ~crashed
  /\ thread2 = Idle
  /\ ctx[c].obj = "alive" /\ ctx[c].hostRef
  /\ thread2' = [pc |-> "dispose", arg |-> c]
  /\ UNCHANGED <<rt_disposed, qjsRuntime, contexts_, hostRtRef, ctx, jobs,
                 g_sandboxFuncCounter, stack, last, log, rtFrees, swallowed,
                 stale, crashed, wire>>

\* The second thread's dispose() gets the lock and runs to its end.
ThreadDisposeRun ==
  /\ ~crashed
  /\ thread2.pc = "dispose"
  /\ Acquirable(thread2.arg)
  /\ ctx' = [ctx EXCEPT ![thread2.arg] = Disposed(ctx[thread2.arg])]
  /\ thread2' = Idle
  /\ UNCHANGED <<rt_disposed, qjsRuntime, contexts_, hostRtRef, jobs,
                 g_sandboxFuncCounter, stack, last, log, rtFrees, swallowed,
                 stale, crashed, wire>>

\* The thread that runs the native stack is inside an eval or a proxy call
\* of some Context, hence inside the engine instance.
InFlight == \E c \in CtxIds : HeldByStack(c)

\* The mutex_ of the Runtime is free for the second thread: the thread that
\* runs the native stack is not inside Runtime::dispose.
RuntimeAcquirable == \A k \in 1..Len(stack) : stack[k].op # "rtDispose"

\* The second thread calls rt.dispose(): it takes the Runtime's mutex_ (no
\* Context's), passes the disposed_ guard and sets disposed_.
ThreadRtDispose ==
  /\ ~crashed
  /\ thread2 = Idle
  /\ hostRtRef
  /\ RuntimeAcquirable
  /\ ~RuntimeDisposed
  /\ rt_disposed' = TRUE
  /\ thread2' = [pc |-> "rtDrain", arg |-> 0]
  /\ UNCHANGED <<qjsRuntime, contexts_, hostRtRef, ctx, jobs,
                 g_sandboxFuncCounter, stack, last, log, rtFrees, swallowed,
                 stale, crashed, wire>>

\* One turn of its drain loop: JS_ExecutePendingJob runs the first pending
\* job on the second thread, whatever the other thread is doing; with the
\* queue empty the loop ends. A job run while the other thread is inside
\* the engine is a data race on the engine instance, after which the
\* process may go on or crash.
ThreadRtDrain ==
  /\ ~crashed
  /\ thread2.pc = "rtDrain"
  /\ IF qjsRuntime = "live" /\ jobs # <<>>
       THEN /\ jobs' = Drained(jobs)
            /\ log' = Logged("job")
            /\ swallowed' = (swallowed \/ Head(jobs).kind = "throw")
            /\ IF InFlight
                 THEN /\ stale' = stale \cup {"raced"}
                      /\ crashed' \in BOOLEAN
                 ELSE UNCHANGED <<stale, crashed>>
            /\ UNCHANGED thread2
       ELSE /\ thread2' = [pc |-> "rtContexts", arg |-> 1]
            /\ UNCHANGED <<jobs, log, swallowed, stale, crashed>>
  /\ UNCHANGED <<rt_disposed, qjsRuntime, contexts_, hostRtRef, ctx,
                 g_sandboxFuncCounter, stack, last, rtFrees, wire>>

\* One turn of its loop over contexts_: ctx->dispose() waits for the mutex_
\* of the Context, and its JS_FreeContext races with the other thread when
\* that one is inside the engine for another Context; after the last one
\* contexts_.clear().
ThreadRtContexts ==
  /\ ~crashed
  /\ thread2.pc = "rtContexts"
  /\ IF thread2.arg <= Len(contexts_)
       THEN LET c == contexts_[thread2.arg] IN
            /\ Acquirable(c)
            /\ ctx' = [ctx EXCEPT ![c] = Disposed(ctx[c])]
            /\ thread2' = [thread2 EXCEPT !.arg = @ + 1]
            /\ IF InFlight /\ ~ctx[c].disposed_
                 THEN /\ stale' = stale \cup {"raced"}
                      /\ crashed' \in BOOLEAN
                 ELSE UNCHANGED <<stale, crashed>>
            /\ UNCHANGED <<contexts_, log>>
       ELSE /\ ctx' = [c \in CtxIds |->
                         IF c \in Range(contexts_)
                           THEN Released(ctx[c], FALSE)
                           ELSE ctx[c]]
            /\ contexts_' = <<>>
            /\ log' = Logged("contexts")
            /\ thread2' = [pc |-> "rtFree", arg |-> 0]
            /\ UNCHANGED <<stale, crashed>>
  /\ UNCHANGED <<rt_disposed, qjsRuntime, hostRtRef, jobs,
                 g_sandboxFuncCounter, stack, last, rtFrees, swallowed,
                 wire>>

\* JS_FreeRuntime on the second thread, and the return of dispose().
ThreadRtFree ==
  /\ ~crashed
  /\ thread2.pc = "rtFree"
  /\ IF qjsRuntime = "live"
       THEN /\ qjsRuntime' = "null"
            /\ rtFrees' = rtFrees + 1
            /\ log' = Logged("free")
            /\ ctx' = [c \in CtxIds |-> Collected(ctx[c])]
            /\ IF FinalizerDangles
                 THEN /\ stale' = stale \cup {"finalizer"}
                      /\ crashed' \in BOOLEAN
                 ELSE UNCHANGED <<stale, crashed>>
       ELSE UNCHANGED <<qjsRuntime, rtFrees, log, ctx, stale, crashed>>
  /\ thread2' = Idle
  /\ UNCHANGED <<rt_disposed, contexts_, hostRtRef, jobs,
                 g_sandboxFuncCounter, stack, last, swallowed, wire>>

\* A Context of another Runtime, driven by the second thread, converts a
\* sandbox function: ++g_sandboxFuncCounter there is a read of the counter
\* they share,
ForeignExportRead ==
  /\ ~crashed
  /\ thread2 = Idle
  /\ g_sandboxFuncCounter < MaxExports
  /\ thread2' = [pc |-> "export", arg |-> g_sandboxFuncCounter]
  /\ UNCHANGED <<rt_disposed, qjsRuntime, contexts_, hostRtRef, ctx, jobs,
                 g_sandboxFuncCounter, stack, last, log, rtFrees, swallowed,
                 stale, crashed, wire>>

\* and then a write of the value read, plus one.
ForeignExportWrite ==
  /\ ~crashed
  /\ thread2.pc = "export"
  /\ g_sandboxFuncCounter' = thread2.arg + 1
  /\ thread2' = Idle
  /\ UNCHANGED <<rt_disposed, qjsRuntime, contexts_, hostRtRef, ctx, jobs,
                 stack, last, log, rtFrees, swallowed, stale, crashed, wire>>

\* ---- one live Context and the values that cross the bridge -------------
\* The variables of the Runtime, its Contexts and the threads that drive them.
host == <<rt_disposed, qjsRuntime, contexts_, hostRtRef, ctx, jobs,
          g_sandboxFuncCounter, stack, last, log, rtFrees, swallowed, stale,
          crashed, thread2>>

\* A public call that returned the host value v.
Returned(sb, v) == [sb EXCEPT !.out = "ok", !.ret = v]

\* A public call that raised error e with the message text t.
Raised(sb, e, t) == [sb EXCEPT !.out = e, !.ret = Val("string", t)]

\* qjsToJSI on the sandbox value v a public call returns: a function is
\* rooted under the next export key and the host gets a proxy that holds
\* the key; any other value is converted.
ToHost(sb, v) ==
  IF v.kind \in {"function", "hostfn"}
    THEN [sb EXCEPT !.exported = Append(@, v), !.out = "ok",
                    !.ret = Val("proxy", Len(sb.exported) + 1)]
    ELSE Returned(sb, qjsToJSI(v))

\* Whether converting v exports a function, and the export still fits.
CanExport(sb, v) ==
  v.kind \in {"function", "hostfn"} => Len(sb.exported) < MaxExports

ArgsToHostReversed(a) ==
  [i \in 1..Len(a) |-> qjsToJSI(a[Len(a) + 1 - i])]

\* hostFunctionCallback: jsiArgs.push_back(qjsToJSI(argv[i])) for each i.
ArgsToHost(a) == [i \in 1..Len(a) |-> qjsToJSI(a[i])]

ArgsToSandboxReversed(a) ==
  [i \in 1..Len(a) |-> jsiToQJS(a[Len(a) + 1 - i])]

\* The sandbox proxy: qjsArgs.push_back(jsiToQJS(args[i])) for each i.
ArgsToSandbox(a) == [i \in 1..Len(a) |-> jsiToQJS(a[i])]

\* The sandbox calls the value g with the arguments a: a trampoline
\* (hostFunctionCallback) marshals the arguments, calls the host function
\* once and marshals its result back; a sandbox function computes its result
\* in the sandbox. Yields the value of the call, the host functions invoked
\* and the sandbox functions run.
Called(g, a) ==
  IF g.kind = "hostfn"
    THEN [value |-> jsiToQJS(Apply(g.val, ArgsToHost(a))),
          called |-> <<[fn |-> g.val, args |-> ArgsToHost(a)]>>,
          ran |-> <<>>]
    ELSE [value |-> Apply(g.val, a), called |-> <<>>,
          ran |-> <<[fn |-> g.val, args |-> a]>>]

\* The Context as a public call finds it: no call made yet.
Fresh(sb) == [sb EXCEPT !.called = <<>>, !.ran = <<>>]

\* The Context after the sandbox has called g with the arguments a.
AfterCall(sb, g, a) ==
  [sb EXCEPT !.called = Called(g, a).called, !.ran = Called(g, a).ran]

\* setGlobal(n, v) on the live Context.
SetGlobalValue(n, v) ==
  /\ sandbox' = Returned([Fresh(sandbox) EXCEPT !.global[n] = jsiToQJS(v),
                                                !.passed[n] = v],
                         Val("undefined", 0))
  /\ UNCHANGED <<host, options, timeout_, shim>>

\* getGlobal(n) on the live Context.
GetGlobalValue(n) ==
  /\ CanExport(sandbox, sandbox.global[n])
  /\ sandbox' = ToHost(Fresh(sandbox), sandbox.global[n])
  /\ UNCHANGED <<host, options, timeout_, shim>>

\* eval of a function declaration, "function n(a, b) { ... }": the global n
\* is the sandbox function f, the completion value is undefined.
EvalDefine(n, f) ==
  /\ sandbox' = Returned([Fresh(sandbox) EXCEPT
                            !.global[n] = Val("function", f),
                            !.passed[n] = Val("none", 0)],
                         Val("undefined", 0))
  /\ UNCHANGED <<host, options, timeout_, shim>>

\* The string form of the TypeError the engine raises on a call of a value
\* that is no function ("n").
NotAFunction == <<110>>

\* eval of a call of the global n, "n(a1, .., ak)".
EvalCall(n, a) ==
  LET g == sandbox.global[n] IN
  /\ IF g.kind \in {"function", "hostfn"}
       THEN /\ a \in ArgLists(g.val)
            /\ CanExport(sandbox, Called(g, a).value)
            /\ sandbox' = ToHost(AfterCall(sandbox, g, a),
                                 Called(g, a).value)
       ELSE /\ a = <<>>
            /\ sandbox' = Raised(Fresh(sandbox), "EvaluationError",
                                 CString(NotAFunction))
  /\ UNCHANGED <<host, options, timeout_, shim>>

\* The string form of an Error with message m, as JS_ToCString gives it for
\* the exception: "E:" stands for "Error: ".
ErrorToString(m) == <<69, 58>> \o m

\* eval of a script that raises an exception, "throw new Error(m)":
\* JS_GetException, JS_ToCString, then std::string errorMsg = str.
EvalThrow(m) ==
  /\ sandbox' = Raised(Fresh(sandbox), "EvaluationError",
                       CString(ErrorToString(m)))
  /\ UNCHANGED <<host, options, timeout_, shim>>

\* e.what() in the catch clause of hostFunctionCallback: the text of the
\* exception the host function threw with the message m, as a C string.
what(m) == CString(m)

\* The string form of the InternalError that JS_ThrowInternalError(ctx, "%s",
\* e.what()) raises in the sandbox: "I:" stands for "InternalError: ".
InternalErrorToString(t) == <<73, 58>> \o t

\* eval of a script that calls the global n, a host function that throws an
\* error with the message m. The trampoline catches it and raises an
\* InternalError in the sandbox; a script that catches it ("try { n() }
\* catch (e) { e.message }") completes with the message, any other ends in
\* the error path of eval.
EvalCallThrows(n, m, caught) ==
  LET g == sandbox.global[n]
      sb == [sandbox EXCEPT !.called = <<[fn |-> g.val, args |-> <<>>]>>,
                            !.ran = <<>>]
  IN
  /\ g.kind = "hostfn"
  /\ sandbox' = IF caught
                  THEN Returned(sb, qjsToJSI(Val("string", what(m))))
                  ELSE Raised(sb, "EvaluationError",
                              CString(InternalErrorToString(what(m))))
  /\ UNCHANGED <<host, options, timeout_, shim>>

\* The host calls the proxy that holds export key k with the arguments a.
ProxyInvoke(k, a) ==
  /\ k \in 1..Len(sandbox.exported)
  /\ LET g == sandbox.exported[k] IN
     /\ a \in ArgLists(g.val)
     /\ CanExport(sandbox, Called(g, ArgsToSandbox(a)).value)
     /\ sandbox' = ToHost(AfterCall(sandbox, g, ArgsToSandbox(a)),
                          Called(g, ArgsToSandbox(a)).value)
  /\ UNCHANGED <<host, options, timeout_, shim>>

\* All argument lists of the model.
AllArgLists == UNION {ArgLists(f) : f \in HostFunctions \cup SandboxFunctions}

\* ---- the public surface of a Context ---------------------------------------
\* The arguments of a call of a method of the Context host object, by what
\* each is: a string, another primitive, or a function.
Args == {<<>>, <<"string">>, <<"prim">>, <<"string", "prim">>,
         <<"string", "function">>, <<"function", "string">>}

ValidCount(args, k) == Len(args) >= k

\* The test that opens the eval, setGlobal and getGlobal lambdas of
\* QuickJSSandboxContext::get: count < k || !args[0].isString() throws.
Valid(args, k) == Len(args) >= k /\ args[1] = "string"

\* The lambda threw before it called into the Context.
Rejected(o, c) ==
  /\ last' = Call(o, c, ctx[c].disposed_, "InvalidArgument", FALSE)
  /\ UNCHANGED <<rt_disposed, qjsRuntime, contexts_, hostRtRef, ctx, jobs,
                 g_sandboxFuncCounter, stack, log, rtFrees, swallowed, stale,
                 crashed, thread2, wire>>

\* The host calls ctx.eval(...args).
EvalMethod(c, args) ==
  /\ AtTopLevel
  /\ ctx[c].obj = "alive" /\ ctx[c].hostRef
  /\ IF Valid(args, 1)
       THEN Eval(c, "value")
       ELSE Rejected("eval", c)

\* The host calls ctx.setGlobal(...args); a string passed as the value is a
\* primitive.
SetGlobalMethod(c, args) ==
  /\ AtTopLevel
  /\ ctx[c].obj = "alive" /\ ctx[c].hostRef
  /\ IF Valid(args, 2)
       THEN \E n \in GlobalNames :
              SetGlobal(c, n, IF args[2] = "function" THEN "function"
                              ELSE "prim")
       ELSE Rejected("setGlobal", c)

\* The host calls ctx.getGlobal(...args).
GetGlobalMethod(c, args) ==
  /\ AtTopLevel
  /\ ctx[c].obj = "alive" /\ ctx[c].hostRef
  /\ IF Valid(args, 1)
       THEN \E n \in GlobalNames : GetGlobal(c, n)
       ELSE Rejected("getGlobal", c)

IsDisposedNever(r) == FALSE

\* QuickJSSandboxContext::get for "isDisposed": jsi::Value(disposed_).
IsDisposed(r) == r.disposed_

\* The host reads ctx.isDisposed.
GetIsDisposed(c) ==
  /\ AtTopLevel
  /\ ctx[c].obj = "alive" /\ ctx[c].hostRef
  /\ last' = Call("isDisposed", c, ctx[c].disposed_,
                  IF IsDisposed(ctx[c]) THEN "true" ELSE "false", FALSE)
  /\ UNCHANGED <<rt_disposed, qjsRuntime, contexts_, hostRtRef, ctx, jobs,
                 g_sandboxFuncCounter, stack, log, rtFrees, swallowed, stale,
                 crashed, thread2, wire>>

\* Names of properties the host may assign on the Context host object.
PropNames == {"isDisposed", "eval"}

\* The host assigns ctx[p] = v: QuickJSSandboxContext::set has an empty body.
SetProperty(c, p) ==
  /\ AtTopLevel
  /\ ctx[c].obj = "alive" /\ ctx[c].hostRef
  /\ last' = Call("set", c, ctx[c].disposed_, "ok", FALSE)
  /\ UNCHANGED <<rt_disposed, qjsRuntime, contexts_, hostRtRef, ctx, jobs,
                 g_sandboxFuncCounter, stack, log, rtFrees, swallowed, stale,
                 crashed, thread2, wire>>

\* Milliseconds a script runs for.
Durations == {1, 50, 200, 40000}

InterruptedPastTimeout(t, d) == d > t

\* Whether the engine stops a script that has run d ms in a Context whose
\* Runtime stores the timeout t: the Context constructor leaves its timeout
\* parameter unnamed and installs no interrupt handler.
Interrupted(t, d) == FALSE

\* The host evaluates a script that runs for d ms and completes normally.
EvalFor(c, d) ==
  /\ AtTopLevel
  /\ ctx[c].obj = "alive" /\ ctx[c].hostRef
  /\ IF ~ThrowsDisposed(ctx[c]) /\ Interrupted(timeout_, d)
       THEN /\ last' = Call("eval", c, ctx[c].disposed_, "Timeout", TRUE)
            /\ UNCHANGED <<rt_disposed, qjsRuntime, contexts_, hostRtRef,
                           ctx, jobs, g_sandboxFuncCounter, stack, log,
                           rtFrees, swallowed, stale, crashed, thread2, wire>>
       ELSE Eval(c, "value")

\* The host drives Contexts, host functions re-enter the bridge.
Next ==
  \/ CreateContext
  \/ \E c \in CtxIds : CtxDispose(c)
  \/ \E c \in CtxIds, n \in GlobalNames, b \in HostValues : SetGlobal(c, n, b)
  \/ \E c \in CtxIds, n \in GlobalNames : GetGlobal(c, n)
  \/ \E c \in CtxIds, s \in CallScripts : Eval(c, s)
  \/ \E b \in HostFns : HostBody(b)
  \/ HostReturn
  \/ EvalReturn
  \/ RtDispose
  \/ RtDisposeStep

Spec == Init /\ [][Next]_vars

\* The host queues pending jobs and tears the Runtime down.
NextDrain ==
  \/ CreateContext
  \/ \E c \in CtxIds : CtxDispose(c)
  \/ \E c \in CtxIds, s \in JobScripts : Eval(c, s)
  \/ RtDispose
  \/ DropRuntime
  \/ RtDisposeStep
  \/ \E c \in CtxIds : DropContext(c)

SpecDrain == Init /\ [][NextDrain]_vars

\* The host registers host functions and drops its references to the
\* objects; the destructors run.
NextLifetime ==
  \/ CreateContext
  \/ \E c \in CtxIds : CtxDispose(c)
  \/ \E c \in CtxIds, n \in GlobalNames, b \in HostValues : SetGlobal(c, n, b)
  \/ RtDispose
  \/ DropRuntime
  \/ RtDisposeStep
  \/ \E c \in CtxIds : DropContext(c)

SpecLifetime == Init /\ [][NextLifetime]_vars

\* The host drives Contexts with calls that return at once.
NextHost ==
  \/ CreateContext
  \/ \E c \in CtxIds : CtxDispose(c)
  \/ \E c \in CtxIds, n \in GlobalNames, b \in HostValues : SetGlobal(c, n, b)
  \/ \E c \in CtxIds, n \in GlobalNames : GetGlobal(c, n)
  \/ \E c \in CtxIds, s \in {"value", "throw"} \cup AssignScripts : Eval(c, s)
  \/ RtDispose
  \/ RtDisposeStep

SpecHost == Init /\ [][NextHost]_vars

\* Sandbox code queues host functions as promise reactions; the Runtime's
\* teardown runs them.
NextReaction ==
  \/ CreateContext
  \/ \E c \in CtxIds : CtxDispose(c)
  \/ \E c \in CtxIds, n \in GlobalNames, b \in HostValues : SetGlobal(c, n, b)
  \/ \E c \in CtxIds, s \in ReactionScripts : Eval(c, s)
  \/ \E b \in {"ret"} \cup NestedFns : HostBody(b)
  \/ HostReturn
  \/ RtDispose
  \/ RtDisposeStep

SpecReaction == Init /\ [][NextReaction]_vars

\* The host keeps proxies of sandbox functions and calls them, also after
\* it has let go of the Context and the Runtime.
NextProxy ==
  \/ CreateContext
  \/ \E c \in CtxIds : CtxDispose(c)
  \/ \E c \in CtxIds, n \in GlobalNames : SetGlobal(c, n, "function")
  \/ \E c \in CtxIds, n \in GlobalNames : GetGlobal(c, n)
  \/ \E c \in CtxIds, k \in 1..MaxExports : ProxyCall(c, k)
  \/ HostBody("ret")
  \/ HostReturn
  \/ ProxyReturn
  \/ RtDispose
  \/ RtDisposeStep
  \/ \E c \in CtxIds : DropContext(c)

SpecProxy == Init /\ [][NextProxy]_vars

\* The host queues pending jobs and goes on using the Contexts.
NextPending ==
  \/ CreateContext
  \/ \E c \in CtxIds, n \in GlobalNames : SetGlobal(c, n, "function")
  \/ \E c \in CtxIds, n \in GlobalNames : GetGlobal(c, n)
  \/ \E c \in CtxIds, s \in {"value", "enqueue_plain"} : Eval(c, s)
  \/ \E c \in CtxIds, k \in 1..MaxExports : ProxyCall(c, k)
  \/ HostBody("ret")
  \/ HostReturn
  \/ ProxyReturn
  \/ RtDispose
  \/ RtDisposeStep

SpecPending == Init /\ [][NextPending]_vars

\* A second thread disposes Contexts while the first thread's calls are in
\* flight.
NextThreads ==
  \/ CreateContext
  \/ \E c \in CtxIds, n \in GlobalNames : SetGlobal(c, n, "function")
  \/ \E c \in CtxIds, n \in GlobalNames : GetGlobal(c, n)
  \/ \E c \in CtxIds : Eval(c, "call_f")
  \/ \E c \in CtxIds, k \in 1..MaxExports : ProxyCall(c, k)
  \/ HostBody("ret")
  \/ HostReturn
  \/ EvalReturn
  \/ ProxyReturn
  \/ \E c \in CtxIds : ThreadDispose(c)
  \/ ThreadDisposeRun

SpecThreads == Init /\ [][NextThreads]_vars

\* A second thread drives a Context of another Runtime while the first
\* thread exports sandbox functions.
NextExports ==
  \/ CreateContext
  \/ \E c \in CtxIds : CtxDispose(c)
  \/ \E c \in CtxIds, n \in GlobalNames, b \in HostValues : SetGlobal(c, n, b)
  \/ \E c \in CtxIds, n \in GlobalNames : GetGlobal(c, n)
  \/ ForeignExportRead
  \/ ForeignExportWrite

SpecExports == Init /\ [][NextExports]_vars

\* Host functions call back into the Context they were called from.
NextReentry ==
  \/ CreateContext
  \/ \E c \in CtxIds : CtxDispose(c)
  \/ \E c \in CtxIds, n \in GlobalNames : SetGlobal(c, n, "function")
  \/ \E c \in CtxIds : Eval(c, "call_f")
  \/ \E b \in {"ret"} \cup NestedFns : HostBody(b)
  \/ HostReturn
  \/ EvalReturn

SpecReentry == Init /\ [][NextReentry]_vars

\* The host calls the methods of the Context host objects with arguments of
\* any kind and number.
NextSurface ==
  \/ CreateContext
  \/ \E c \in CtxIds : CtxDispose(c)
  \/ \E c \in CtxIds, args \in Args : EvalMethod(c, args)
  \/ \E c \in CtxIds, args \in Args : SetGlobalMethod(c, args)
  \/ \E c \in CtxIds, args \in Args : GetGlobalMethod(c, args)

SpecSurface == Init /\ [][NextSurface]_vars

\* The host reads isDisposed and assigns properties while Contexts and the
\* Runtime are created, used and disposed.
NextFlag ==
  \/ CreateContext
  \/ \E c \in CtxIds : CtxDispose(c)
  \/ \E c \in CtxIds : GetGlobal(c, "f")
  \/ \E c \in CtxIds : GetIsDisposed(c)
  \/ \E c \in CtxIds, p \in PropNames : SetProperty(c, p)
  \/ RtDispose
  \/ RtDisposeStep

SpecFlag == Init /\ [][NextFlag]_vars

\* Scripts call host functions that throw.
NextThrows ==
  \/ \E n \in GlobalNames, v \in HostCallables : SetGlobalValue(n, v)
  \/ \E n \in GlobalNames : GetGlobalValue(n)
  \/ \E n \in GlobalNames, a \in AllArgLists : EvalCall(n, a)
  \/ \E n \in GlobalNames, m \in Strings, caught \in BOOLEAN :
       EvalCallThrows(n, m, caught)

SpecThrows == Init /\ [][NextThrows]_vars

\* Sandbox code deletes export-key properties; the host calls the proxies
\* that hold the keys.
NextKeys ==
  \/ CreateContext
  \/ \E c \in CtxIds : SetGlobal(c, "f", "function")
  \/ \E c \in CtxIds : GetGlobal(c, "f")
  \/ \E c \in CtxIds : Eval(c, "delete_export")
  \/ \E c \in CtxIds, k \in 1..MaxExports : ProxyCall(c, k)
  \/ HostBody("ret")
  \/ HostReturn
  \/ ProxyReturn

SpecKeys == Init /\ [][NextKeys]_vars

\* Sandbox code ties trampolines into reference cycles; the host drops its
\* Contexts and tears the Runtime down.
NextFinalizer ==
  \/ CreateContext
  \/ \E c \in CtxIds : SetGlobal(c, "f", "function")
  \/ \E c \in CtxIds : Eval(c, "cycle_f")
  \/ \E c \in CtxIds : CtxDispose(c)
  \/ \E c \in CtxIds : DropContext(c)
  \/ RtDispose
  \/ RtDisposeStep

SpecFinalizer == Init /\ [][NextFinalizer]_vars

\* A second thread disposes the Runtime while the first one runs scripts
\* that call host functions and leave jobs pending.
NextRtThread ==
  \/ CreateContext
  \/ \E c \in CtxIds : SetGlobal(c, "f", "function")
  \/ \E c \in CtxIds, s \in {"call_f", "enqueue_plain"} : Eval(c, s)
  \/ HostBody("ret")
  \/ HostReturn
  \/ EvalReturn
  \/ ThreadRtDispose
  \/ ThreadRtDrain
  \/ ThreadRtContexts
  \/ ThreadRtFree

SpecRtThread == Init /\ [][NextRtThread]_vars

\* Runtimes created with each of the options run scripts of each duration.
NextOptions ==
  \/ CreateContext
  \/ \E c \in CtxIds : CtxDispose(c)
  \/ \E c \in CtxIds, d \in Durations : EvalFor(c, d)
  \/ \E c \in CtxIds : GetGlobal(c, "f")

SpecOptions == InitOptions /\ [][NextOptions]_vars

\* The host passes values into one live Context and reads them back; scripts
\* define functions and raise exceptions.
NextValues ==
  \/ \E n \in GlobalNames, v \in HostInputs \ HostCallables :
       SetGlobalValue(n, v)
  \/ \E n \in GlobalNames : GetGlobalValue(n)
  \/ \E n \in GlobalNames, f \in SandboxFunctions : EvalDefine(n, f)
  \/ \E m \in Strings : EvalThrow(m)

SpecValues == Init /\ [][NextValues]_vars

\* The host passes functions into one live Context, takes functions out of
\* it, and calls are made across the bridge in both directions.
NextCalls ==
  \/ \E n \in GlobalNames, v \in HostCallables : SetGlobalValue(n, v)
  \/ \E n \in GlobalNames : GetGlobalValue(n)
  \/ \E n \in GlobalNames, f \in SandboxFunctions : EvalDefine(n, f)
  \/ \E n \in GlobalNames, a \in AllArgLists : EvalCall(n, a)
  \/ \E k \in 1..MaxExports, a \in AllArgLists : ProxyInvoke(k, a)

SpecCalls == Init /\ [][NextCalls]_vars

\* Runtime::dispose is one synchronous call: once entered it keeps running.
SpecDrainFair == SpecDrain /\ WF_vars(RtDisposeStep)

\* ---- properties -----------------------------------------------------------

\* Some Runtime::dispose is on the native stack.
DisposeInFlight == \E i \in 1..Len(stack) : stack[i].op = "rtDispose"

\* Runtime::dispose is about to run a pending job.
AboutToRunJob ==
  /\ ~crashed /\ stack # <<>>
  /\ Top.op = "rtDispose"
  /\ DisposePhases[Top.pc] = "drain"
  /\ qjsRuntime = "live" /\ jobs # <<>>

Created(c) == ctx[c].obj # "none"

PhaseRank(e) ==
  CASE e = "job" -> 1
    [] e = "contexts" -> 2
    [] e = "free" -> 3

\* C1: once a Context is disposed, every eval, setGlobal and getGlobal on it
\* raises Disposed, returns no value and does not use the engine; a disposed
\* Context never becomes live again.
C1_DisposedIsFinal ==
  /\ [](last.op \in {"eval", "setGlobal", "getGlobal"} /\ last.pre
          => last.out = "Disposed" /\ ~last.touched)
  /\ [][\A c \in CtxIds :
          ctx[c].disposed_ =>
            ctx'[c].disposed_ /\ ctx'[c].qjsContext_ = "null"]_vars

C1_Witness ==
  /\ last.op = "eval" /\ last.pre /\ last.out = "Disposed"
  /\ rt_disposed /\ ~DisposeInFlight

\* C2: no step uses a context's engine handle after the engine instance was
\* freed.
C2_NoUseAfterEngineFreed == "engineFreed" \notin stale

\* C3: Runtime::dispose drains the pending jobs, then disposes the owned
\* Contexts, then frees the engine instance; no part starts before the
\* previous one has finished.
C3_DrainContextsFree ==
  /\ \A i, j \in 1..Len(log) : i < j => PhaseRank(log[i]) < PhaseRank(log[j])
  /\ "contexts" \in Range(log) => jobs = <<>>
  /\ "free" \in Range(log) => "contexts" \in Range(log) /\ contexts_ = <<>>
  /\ (qjsRuntime = "null") = ("free" \in Range(log))

C3_Witness == log = <<"job", "contexts", "free">> /\ stack = <<>>

\* C4 as stated: Runtime::dispose runs no pending job before the owned
\* Contexts have been disposed.
C4_ContextsBeforeJobs == "job" \in Range(log) => log[1] = "contexts"

\* C4 as amended: Runtime::dispose drains first; a step of it that runs a
\* pending job leaves the owned-context list and every Context as they were,
\* and the engine instance live.
C4_JobsBeforeContexts ==
  [][AboutToRunJob =>
       /\ contexts_' = contexts_
       /\ ctx' = ctx
       /\ qjsRuntime' = "live"
       /\ "contexts" \notin Range(log')]_vars

C4_Witness ==
  /\ log = <<"job">> /\ DisposeInFlight
  /\ \E c \in Range(contexts_) : ~ctx[c].disposed_

\* C5: Runtime::dispose always terminates.
C5_DisposeTerminates == rt_disposed ~> (stack = <<>>)

\* C6: a pending job that raises while Runtime::dispose drains the queue
\* does not stop the teardown: the exception is cleared, the drain goes on
\* with the rest of the queue, and a dispose() that has returned has disposed
\* every Context, freed the engine and raised nothing.
C6_TeardownCannotFail ==
  /\ [](swallowed /\ ~DisposeInFlight =>
          /\ qjsRuntime = "null" /\ jobs = <<>> /\ contexts_ = <<>>
          /\ \A c \in CtxIds : Created(c) => ctx[c].disposed_)
  /\ [](last.op = "rtDispose" => last.out = "ok")
  /\ [][AboutToRunJob /\ Head(jobs).kind = "throw" =>
          stack' = stack /\ jobs' = Tail(jobs) /\ swallowed']_vars

C6_Witness ==
  /\ swallowed /\ stack = <<>> /\ last.op = "rtDispose" /\ last.touched
  /\ log = <<"job", "contexts", "free">>

\* C7: whenever a Runtime::dispose has completed, the owned-context list is
\* empty and every Context the Runtime created is disposed with its handle
\* released; at the step that completes it, every host-function registry is
\* empty.
C7_NoContextOutlivesRuntime ==
  /\ [](rt_disposed /\ ~DisposeInFlight =>
          /\ contexts_ = <<>>
          /\ \A c \in CtxIds :
               Created(c) =>
                 ctx[c].disposed_ /\ ctx[c].qjsContext_ = "null")
  /\ [][DisposeInFlight /\ ~DisposeInFlight' =>
          \A c \in CtxIds : Created(c) => ctx'[c].callbacks_ = {}]_vars

C7_Witness ==
  /\ rt_disposed /\ stack = <<>> /\ log = <<"contexts", "free">>
  /\ \E c \in CtxIds : ctx[c].callbackCounter_ > 0
  /\ \E c, d \in CtxIds : c # d /\ Created(c) /\ Created(d)

\* C8 as stated: createContext on a live Runtime always returns a Context.
C8_LiveRuntimeReturnsContext ==
  last.op = "createContext" /\ ~last.pre => last.out = "ok"

\* C8 as amended: createContext on a disposed Runtime raises Disposed and
\* changes nothing; on a live Runtime it either returns a new, non-disposed
\* Context in the Runtime's live engine and appends exactly it to the
\* owned-context list, or raises EngineConstructionFailure and changes
\* nothing.
C8_CreateContext ==
  [][last' # last /\ last'.op = "createContext" =>
       \/ /\ rt_disposed /\ last'.out = "Disposed"
          /\ ctx' = ctx /\ contexts_' = contexts_
       \/ /\ ~rt_disposed /\ last'.out = "EngineConstructionFailure"
          /\ ctx' = ctx /\ contexts_' = contexts_
       \/ /\ ~rt_disposed /\ last'.out = "ok" /\ qjsRuntime = "live"
          /\ last'.ctx \in CtxIds
          /\ ~Created(last'.ctx)
          /\ last'.ctx \notin Range(contexts_)
          /\ contexts_' = Append(contexts_, last'.ctx)
          /\ ctx'[last'.ctx].obj = "alive"
          /\ ~ctx'[last'.ctx].disposed_
          /\ ctx'[last'.ctx].qjsContext_ = "live"
          /\ \A d \in CtxIds \ {last'.ctx} : ctx'[d] = ctx[d]]_vars

C8_Witness ==
  /\ last.op = "createContext" /\ last.out = "Disposed"
  /\ \E c \in CtxIds : Created(c)

\* C9: Context::dispose is idempotent: the handle of a Context is freed at
\* most once, exactly once when it is disposed or destroyed, and once the
\* Context is disposed no later dispose(), explicit or from the destructor,
\* changes its flag, its empty registry or its released handle.
C9_ContextDisposeIdempotent ==
  /\ [](\A c \in CtxIds :
          /\ ctx[c].frees = (IF ctx[c].disposed_ THEN 1 ELSE 0)
          /\ ctx[c].obj = "destroyed" => ctx[c].disposed_
          /\ ctx[c].disposed_ =>
               ctx[c].callbacks_ = {} /\ ctx[c].qjsContext_ = "null")
  /\ [][\A c \in CtxIds :
          ctx[c].disposed_ =>
            /\ ctx'[c].disposed_
            /\ ctx'[c].callbacks_ = ctx[c].callbacks_
            /\ ctx'[c].qjsContext_ = ctx[c].qjsContext_
            /\ ctx'[c].frees = ctx[c].frees]_vars

C9_Witness ==
  /\ last.op = "ctxDispose" /\ last.pre
  /\ \E c \in CtxIds : ctx[c].obj = "destroyed" /\ ctx[c].callbackCounter_ > 0

\* C10: Runtime::dispose is idempotent: no part of the teardown runs twice,
\* the engine instance is freed exactly once, and a call on a disposed
\* Runtime (explicit or from the destructor) does nothing.
C10_RuntimeDisposeIdempotent ==
  /\ rtFrees = (IF qjsRuntime = "null" THEN 1 ELSE 0)
  /\ rt_disposed /\ ~DisposeInFlight => rtFrees = 1
  /\ \A i, j \in 1..Len(log) : i # j => log[i] # log[j]
  /\ last.op = "rtDispose" /\ last.pre =>
       ~last.touched /\ jobs = <<>> /\ contexts_ = <<>>

C10_Witness ==
  /\ last.op = "rtDispose" /\ last.pre /\ ~hostRtRef
  /\ log = <<"job", "contexts", "free">>

\* C11: a trampoline entered while the registry of its Context no longer
\* holds its entry does not invoke the retained host function: no body has
\* run in such a call.
C11_DisposedProxiesInert ==
  \A k \in 1..Len(stack) :
    stack[k].op = "host" /\ ~stack[k].fn.reg => stack[k].fn.body = "none"

\* C12: the host-function registry of a disposed Context holds no entry, in
\* the state disposal leaves and in every later one.
C12_RegistryCleanup ==
  \A c \in CtxIds : ctx[c].disposed_ => ctx[c].callbacks_ = {}

\* The callback ids of the trampolines of context c that the engine has not
\* reclaimed: those still referenced from the sandbox global object, from a
\* pending job or from a call in progress.
NotFinalized(c) ==
  {i \in 1..ctx[c].callbackCounter_ :
     Rooted(ctx[c], Trampoline(i)) \/ Pinned(c, i, jobs, stack)}

\* C13: in every state the registry of a live Context is the set of the
\* callback ids of the trampolines created in it and not yet finalized: an
\* entry is there from the wrapping on, and the finalizer of a trampoline
\* removes its entry and no other.
C13_RegistryIsLiveProxies ==
  \A c \in CtxIds :
    ctx[c].obj = "alive" /\ ~ctx[c].disposed_ =>
      ctx[c].callbacks_ = NotFinalized(c)

C13_Witness ==
  \E c \in CtxIds :
    /\ ~ctx[c].disposed_ /\ stack = <<>>
    /\ ctx[c].callbackCounter_ = 2 /\ ctx[c].callbacks_ = {1}

\* C14: a callback id or an export key generated in a live Context differs
\* from every one generated in it before: a new registry entry has an id
\* above the ids used so far, and a function is exported under a key that no
\* proxy of the Context holds yet.
C14_IdsNeverReused ==
  [][\A c \in CtxIds :
       /\ ctx'[c].callbacks_ \ ctx[c].callbacks_ \subseteq
            (ctx[c].callbackCounter_ + 1)..ctx'[c].callbackCounter_
       /\ \A n \in GlobalNames :
            GetGlobal(c, n) /\ ctx'[c] # ctx[c] =>
              g_sandboxFuncCounter' \notin ctx[c].proxies]_vars

\* C15: a proxy call on a disposed Context raises Disposed without using
\* the engine, and reads the flag from a Context object that still exists.
C15_ProxyAfterDispose ==
  /\ last.op = "proxy" /\ last.pre => last.out = "Disposed" /\ ~last.touched
  /\ "destroyed" \notin stale

\* C16: while an eval or a proxy call is in flight on a Context, a dispose()
\* the second thread has invoked on it frees nothing and clears nothing; the
\* call in flight ends as it would have, without Disposed and without using
\* a released handle.
C16_DisposeWaitsForCall ==
  /\ [][\A c \in CtxIds :
          HeldByStack(c) =>
            /\ ctx'[c].disposed_ = ctx[c].disposed_
            /\ ctx'[c].qjsContext_ = ctx[c].qjsContext_
            /\ ctx'[c].frees = ctx[c].frees
            /\ ctx'[c].callbacks_ = ctx[c].callbacks_
            /\ ctx'[c].globals = ctx[c].globals]_vars
  /\ [](last.op \in {"eval", "proxy"} /\ ~last.pre => last.out # "Disposed")
  /\ [](stale = {} /\ ~crashed)

C16_Witness ==
  /\ thread2.pc = "dispose" /\ HeldByStack(thread2.arg)
  /\ Top.op = "host" /\ Top.pc = "done"

\* C17: a host function called during eval that calls eval, setGlobal or
\* getGlobal on the same Context gets the lock and its nested call
\* completes; the outer eval then returns its own result, not an error.
C17_NestedCallsComplete ==
  /\ \A k \in 1..Len(stack) : stack[k].pc \notin {"blocked", "threw", "raised"}
  /\ ~crashed /\ stale = {}

C17_Witness ==
  /\ Len(stack) = 2 /\ Top.op = "host" /\ Top.pc = "done"
  /\ Top.fn.body = "setGlobal" /\ HeldByStack(Top.ctx)
  /\ ctx[Top.ctx].callbackCounter_ = 2

\* C18: a job queued during an eval is pending when the eval returns, and a
\* pending job leaves the queue only in a drain step of Runtime::dispose:
\* every other step leaves the queue as it was or adds a job at its end.
C18_NoAutomaticDrain ==
  [][/\ \A c \in CtxIds :
          Eval(c, "enqueue_plain") /\ ~ThrowsDisposed(ctx[c]) =>
            jobs' = Append(jobs, Job("plain"))
     /\ jobs' # jobs =>
          \/ AboutToRunJob
          \/ Len(jobs') = Len(jobs) + 1 /\
               SubSeq(jobs', 1, Len(jobs)) = jobs]_vars

C18_Witness ==
  /\ Len(jobs) = 2 /\ stack = <<>> /\ ~rt_disposed
  /\ last.op = "proxy" /\ last.out = "ok"

\* What getGlobal(n) on context c yields in the current state.
Reads(c, n) ==
  IF ThrowsDisposed(ctx[c]) THEN "Disposed" ELSE Marshaled(ctx[c].globals[n])

\* C19: setGlobal and eval on one Context leave every other Context as it
\* was, so what getGlobal yields there is unchanged; getGlobal yields the
\* value of the Context's own global, which is undefined in a new Context.
C19_Isolation ==
  [][\A c \in CtxIds, n \in GlobalNames :
       /\ \A b \in HostValues :
            SetGlobal(c, n, b) =>
              \A d \in CtxIds \ {c} :
                ctx'[d] = ctx[d] /\ Reads(d, n)' = Reads(d, n)
       /\ \A s \in {"value", "throw"} \cup AssignScripts :
            Eval(c, s) =>
              \A d \in CtxIds \ {c} :
                ctx'[d] = ctx[d] /\ Reads(d, n)' = Reads(d, n)
       /\ GetGlobal(c, n) => last'.out = Reads(c, n)
       /\ ~Created(c) /\ Created(c)' => Reads(c, n)' = "undefined"]_vars

C19_Witness ==
  /\ last.op = "getGlobal" /\ last.out = "undefined"
  /\ ctx[1].globals["f"] = Primitive
  /\ ~ctx[2].disposed_ /\ ctx[2].obj = "alive"
  /\ ctx[2].globals["f"] = Undefined

\* C20: Context::dispose changes the Context it is called on and nothing
\* else: every other Context, the owned-context list, the pending jobs and
\* the Runtime stay as they were, and calls on a Context that is not
\* disposed do not raise Disposed.
C20_DisposeLeavesSiblings ==
  /\ [][\A c \in CtxIds :
          CtxDispose(c) =>
            /\ \A d \in CtxIds \ {c} : ctx'[d] = ctx[d]
            /\ contexts_' = contexts_ /\ jobs' = jobs
            /\ rt_disposed' = rt_disposed /\ qjsRuntime' = qjsRuntime]_vars
  /\ [](last.op \in {"eval", "setGlobal", "getGlobal"} /\ ~last.pre =>
          last.out # "Disposed")

C20_Witness ==
  /\ last.op = "ctxDispose" /\ ~last.pre /\ ~rt_disposed
  /\ \E c, d \in CtxIds :
       /\ ctx[c].disposed_ /\ ~ctx[d].disposed_ /\ ctx[d].obj = "alive"
       /\ ctx[d].callbacks_ # {} /\ ctx[d].exported # {}
\* C21: a sandbox call of a global that holds a host function, made during
\* an eval, invokes that host function exactly once within the eval, with
\* the sandbox arguments marshaled to the host in their order, and the eval
\* returns the host function's result marshaled into the sandbox and back;
\* with f(x) = 2x the script double(21) returns 42.
C21_HostCall ==
  [][\A n \in GlobalNames, a \in AllArgLists :
       sandbox.global[n].kind = "hostfn" /\ EvalCall(n, a) =>
         LET f == sandbox.global[n].val
             c == sandbox'.called
         IN  /\ Len(c) = 1 /\ c[1].fn = f
             /\ Len(c[1].args) = Len(a)
             /\ \A i \in 1..Len(a) : c[1].args[i] = qjsToJSI(a[i])
             /\ sandbox'.out = "ok"
             /\ sandbox'.ret = qjsToJSI(jsiToQJS(Apply(f, c[1].args)))
             /\ f = "double" /\ a = <<Val("number", 21)>> =>
                  sandbox'.ret = Val("number", 42)]_vars

C21_Witness ==
  /\ sandbox.global["f"] = Val("hostfn", "second")
  /\ sandbox.called =
       <<[fn |-> "second",
          args |-> <<Val("number", 1), Val("string", <<97>>)>>]>>
  /\ sandbox.ret = Val("string", <<97>>)

\* C22: getGlobal of a sandbox function gives the host a proxy whose export
\* key roots that function; a call of the proxy runs the function rooted
\* under its key exactly once, with the host arguments marshaled into the
\* sandbox in their order, and returns the function's result marshaled to
\* the host; for add(a, b) = a + b the call add(1, 2) returns 3.
C22_SandboxCall ==
  [][/\ \A n \in GlobalNames :
          GetGlobalValue(n) /\ sandbox.global[n].kind = "function" =>
            /\ sandbox'.ret.kind = "proxy"
            /\ sandbox'.exported[sandbox'.ret.val] = sandbox.global[n]
     /\ \A k \in 1..Len(sandbox.exported) :
          \A a \in ArgLists(sandbox.exported[k].val) :
            sandbox.exported[k].kind = "function" /\ ProxyInvoke(k, a) =>
            LET f == sandbox.exported[k].val
                r == sandbox'.ran
            IN  /\ Len(r) = 1 /\ r[1].fn = f /\ sandbox'.called = <<>>
                /\ Len(r[1].args) = Len(a)
                /\ \A i \in 1..Len(a) : r[1].args[i] = jsiToQJS(a[i])
                /\ sandbox'.out = "ok"
                /\ sandbox'.ret = qjsToJSI(Apply(f, r[1].args))
                /\ f = "add" => sandbox'.ret = Val("number", 3)]_vars

C22_Witness ==
  /\ Len(sandbox.exported) = 2
  /\ sandbox.exported[2] = Val("function", "second")
  /\ sandbox.ran =
       <<[fn |-> "second",
          args |-> <<Val("number", 1), Val("string", <<97>>)>>]>>
  /\ sandbox.ret = Val("string", <<97>>)

\* C23: getGlobal(x) after setGlobal(x, v) with a primitive v, and no write
\* to x in between, yields v: a value of the kind of v with the content of v.
C23_PrimitiveRoundTrip ==
  [][\A n \in GlobalNames :
       sandbox.passed[n] \in Primitives /\ GetGlobalValue(n) =>
         sandbox'.out = "ok" /\ sandbox'.ret = sandbox.passed[n]]_vars

\* C24: getGlobal(a) after setGlobal(a, v) with an array v of primitives and
\* of such arrays yields an array of the length of v with, at each index,
\* the element v has there.
C24_ArrayRoundTrip ==
  [][\A n \in GlobalNames :
       sandbox.passed[n] \in Arrays /\ GetGlobalValue(n) =>
         LET v == sandbox.passed[n]
             r == sandbox'.ret
         IN  /\ sandbox'.out = "ok" /\ r.kind = "array"
             /\ Len(r.val) = Len(v.val)
             /\ \A i \in 1..Len(v.val) : r.val[i] = v.val[i]]_vars

\* C25: an eval whose script raises an exception returns no value and
\* raises EvaluationError with the text of the exception; the globals of
\* the Context and the functions it has exported are as before, and the
\* calls that follow return normally.
C25_EvalErrorTerminal ==
  [][/\ \A m \in Strings :
          EvalThrow(m) =>
            /\ sandbox'.out = "EvaluationError"
            /\ sandbox'.ret = Val("string", ErrorToString(m))
            /\ sandbox'.global = sandbox.global
            /\ sandbox'.exported = sandbox.exported
     /\ \A n \in GlobalNames :
          sandbox.out = "EvaluationError" /\ GetGlobalValue(n) =>
            sandbox'.out = "ok"
     /\ \A n \in GlobalNames, v \in HostInputs \ HostCallables :
          sandbox.out = "EvaluationError" /\ SetGlobalValue(n, v) =>
            sandbox'.out = "ok"]_vars

\* C26: eval and getGlobal called without a string as first argument, and
\* setGlobal called with fewer than two arguments or without a string as
\* first argument, raise InvalidArgument without using the engine, and leave
\* every Context (globals, registry, disposed flag), the pending jobs and the
\* Runtime as they were.
C26_ArgumentValidation ==
  [][LET rejected ==
           /\ last'.out = "InvalidArgument" /\ ~last'.touched
           /\ ctx' = ctx /\ jobs' = jobs /\ stack' = stack
           /\ g_sandboxFuncCounter' = g_sandboxFuncCounter
           /\ rt_disposed' = rt_disposed
         noName == {args \in Args : Len(args) < 1 \/ args[1] # "string"}
         noValue == {args \in Args : Len(args) < 2}
     IN  \/ rejected
         \/ /\ last'.op = "eval" =>
                 \A args \in noName, c \in CtxIds : ~EvalMethod(c, args)
            /\ last'.op = "getGlobal" =>
                 \A args \in noName, c \in CtxIds : ~GetGlobalMethod(c, args)
            /\ last'.op = "setGlobal" =>
                 \A args \in noName \cup noValue, c \in CtxIds :
                    ~SetGlobalMethod(c, args)]_vars

C26_Witness ==
  /\ last.op = "setGlobal" /\ last.out = "InvalidArgument" /\ ~last.pre
  /\ \E c \in CtxIds :
       /\ ~ctx[c].disposed_ /\ ctx[c].callbacks_ # {}
       /\ ctx[c].globals["f"].kind = "hostfn"

\* C27: a read of isDisposed yields the disposed flag, which is false when
\* the Context is created and, once set by Context::dispose (called by the
\* host or by Runtime::dispose), stays set; an assignment to a property of
\* the Context object changes nothing.
C27_IsDisposedReadOnly ==
  [][\A c \in CtxIds :
       /\ GetIsDisposed(c) =>
            /\ last'.out = (IF ctx[c].disposed_ THEN "true" ELSE "false")
            /\ ctx' = ctx
       /\ ~Created(c) /\ Created(c)' => ~ctx'[c].disposed_
       /\ ctx[c].disposed_ => ctx'[c].disposed_
       /\ CtxDispose(c) => ctx'[c].disposed_
       /\ ~ctx[c].disposed_ /\ ctx'[c].disposed_ =>
            CtxDispose(c) \/ RtDisposeStep
       /\ \A p \in PropNames :
            SetProperty(c, p) =>
              /\ ctx' = ctx /\ contexts_' = contexts_ /\ jobs' = jobs
              /\ rt_disposed' = rt_disposed /\ qjsRuntime' = qjsRuntime]_vars

C27_Witness ==
  /\ last.op = "isDisposed" /\ last.out = "true"
  /\ \E c \in CtxIds : ctx[c].disposed_ /\ ctx[c].hostRef
  /\ \E d \in CtxIds : Created(d) /\ ~ctx[d].disposed_

\* C28: while a Context is live no export key is removed from its global
\* object, and every conversion of a sandbox function by getGlobal, the
\* same function again included, adds exactly one export key that was not
\* there before.
C28_ExportKeysAccumulate ==
  [][\A c \in CtxIds :
       /\ ~ctx[c].disposed_ /\ ~ctx'[c].disposed_ =>
            ctx[c].exported \subseteq ctx'[c].exported
       /\ \A n \in GlobalNames :
            /\ ~ThrowsDisposed(ctx[c]) /\ ctx[c].globals[n].kind = "hostfn"
            /\ GetGlobal(c, n)
            => Cardinality(ctx'[c].exported) =
                 Cardinality(ctx[c].exported) + 1]_vars

\* C29: the Runtime stores options.timeout when createRuntime is given an
\* object whose timeout is a number, and 30000 in every other case; the
\* stored value never changes and is never enforced: a script that runs for
\* longer than the stored timeout completes as it does under any other
\* timeout.
C29_TimeoutStoredNotEnforced ==
  [][/\ timeout_ = (IF options.count > 0 /\ options.isObject
                       /\ options.hasTimeout
                       /\ options.timeout.kind = "number"
                      THEN options.timeout.val ELSE 30000)
     /\ timeout_' = timeout_ /\ options' = options
     /\ last'.out # "Timeout"
     /\ last'.op = "eval" =>
          \A c \in CtxIds, d \in Durations :
            EvalFor(c, d) => Eval(c, "value")]_vars

C29_Witness ==
  /\ options.timeout = Val("number", 0) /\ timeout_ = 0
  /\ last.op = "eval" /\ last.out = "ok" /\ last.touched

\* C30: while an eval or a proxy call of one of its Contexts is in flight on
\* one thread, a Runtime.dispose() running on a second thread executes no
\* pending job and frees neither a Context nor the engine instance, and the
\* engine instance is never driven by both threads at once.
C30_DisposeWaitsForInFlight ==
  [][/\ InFlight /\ (ThreadRtDrain \/ ThreadRtContexts \/ ThreadRtFree) =>
          /\ jobs' = jobs
          /\ qjsRuntime' = qjsRuntime
          /\ \A c \in CtxIds : ctx'[c].qjsContext_ = ctx[c].qjsContext_
     /\ "raced" \notin stale']_vars

\* C31: when a host function called during eval disposes the Context (or
\* the Runtime) it was called from, no later step of that call chain uses
\* the context's engine handle released by JS_FreeContext.
C31_ReentrantDisposeSafe == "released" \notin stale

\* C32: whenever the engine runs hostFunctionDataFinalizer, the Context
\* object the trampoline's back-reference points to still exists.
C32_FinalizerSeesContext == "finalizer" \notin stale

\* C33: a proxy of a sandbox function, called by the host after the Runtime
\* was disposed and the host dropped the Runtime and the Context, still
\* finds the Context object whose disposed_ it reads.
C33_ProxySeesContext == "destroyed" \notin stale

\* C34: with a Context of another Runtime exporting on a second thread, a
\* conversion of a sandbox function by getGlobal never stores the function
\* under an export key that already roots a function in the same Context.
C34_ExportKeysUnique ==
  [][\A c \in CtxIds, n \in GlobalNames :
       /\ ~ThrowsDisposed(ctx[c]) /\ ctx[c].globals[n].kind = "hostfn"
       /\ GetGlobal(c, n)
       => \A e \in ctx[c].exported : e.key # g_sandboxFuncCounter']_vars

\* C35: a proxy called on a live Context whose sandbox global object no
\* longer holds the proxy's export key raises an error to the host, calls no
\* sandbox function and leaves the Context as it was, live.
C35_MissingExportKey ==
  [][\A c \in CtxIds, k \in 1..MaxExports :
       /\ ctx[c].obj = "alive" /\ ~ctx[c].disposed_
       /\ \A e \in ctx[c].exported : e.key # k
       /\ ProxyCall(c, k)
       => /\ last'.op = "proxy" /\ last'.out = "NotFound"
          /\ stack' = <<>>
          /\ ctx' = ctx]_vars

C35_Witness ==
  /\ last.op = "proxy" /\ last.out = "NotFound" /\ ~last.pre
  /\ \E c \in CtxIds :
       /\ ~ctx[c].disposed_ /\ ctx[c].exported # {}
       /\ \E k \in ctx[c].proxies : \A e \in ctx[c].exported : e.key # k

\* C36: when a host function called by sandbox code throws, the sandbox
\* sees an internal error that carries the message thrown; a script that
\* does not catch it ends its eval in an error raised to the host with that
\* message, and either way the globals and the exported functions of the
\* Context are as before and the calls that follow return normally.
C36_HostThrowBecomesInternalError ==
  [][/\ \A n \in GlobalNames, m \in Strings :
          /\ EvalCallThrows(n, m, TRUE) =>
               /\ sandbox'.out = "ok" /\ sandbox'.ret = Val("string", m)
               /\ sandbox'.global = sandbox.global
               /\ sandbox'.exported = sandbox.exported
          /\ EvalCallThrows(n, m, FALSE) =>
               /\ sandbox'.out = "EvaluationError"
               /\ sandbox'.ret = Val("string", InternalErrorToString(m))
               /\ sandbox'.global = sandbox.global
               /\ sandbox'.exported = sandbox.exported
     /\ \A n \in GlobalNames, a \in AllArgLists :
          sandbox.out = "EvaluationError" /\ EvalCall(n, a) =>
            sandbox'.out = "ok"]_vars

\* C37: after setGlobal(n, f) with a host function f, getGlobal(n) adds one
\* export key and gives the host a callable g; a call g(x) invokes f exactly
\* once, with x, and returns f(x).
C37_DoubleProxy ==
  [][/\ \A n \in GlobalNames :
          GetGlobalValue(n) /\ sandbox.global[n].kind = "hostfn" =>
            /\ sandbox'.ret.kind = "proxy"
            /\ Len(sandbox'.exported) = Len(sandbox.exported) + 1
            /\ sandbox'.exported[sandbox'.ret.val] = sandbox.global[n]
     /\ \A k \in 1..Len(sandbox.exported) :
          \A a \in ArgLists(sandbox.exported[k].val) :
            sandbox.exported[k].kind = "hostfn" /\ ProxyInvoke(k, a) =>
            LET f == sandbox.exported[k].val
            IN  /\ sandbox'.called = <<[fn |-> f, args |-> a]>>
                /\ sandbox'.ran = <<>>
                /\ sandbox'.out = "ok"
                /\ sandbox'.ret = Apply(f, a)]_vars

\* ---- the WASM shim: lifecycle, evaluation, pending jobs -------------------
\* The per-call fields of the shim as an exported function is entered.
ShimCall(s, op) ==
  [s EXCEPT !.op = op, !.ret = 0, !.str = <<>>, !.touched = FALSE,
            !.arg = 0, !.calls = <<>>, !.executed = 0, !.jobFailed = FALSE]

AlreadyInitializedNever(s) == FALSE

\* qjs_init's test for "already initialized".
AlreadyInitialized(s) == s.g_runtime # NULL

\* What JS_NewRuntime and JS_NewContext can do for qjs_init: both succeed, or
\* one of them returns NULL.
InitOutcomes == {"ok", "no_runtime", "no_context"}

\* qjs_init: 0 at once when a runtime exists; else a new runtime with the
\* limits set and a new context, -1 when no runtime could be made, -2 (and
\* the runtime freed again) when no context could be made.
qjs_init(outcome) ==
  LET s == ShimCall(shim, "qjs_init")
  IN  /\ IF AlreadyInitialized(shim)
         THEN /\ outcome = "ok"
              /\ shim' = s
         ELSE /\ shim.made < MaxInits
              /\ shim' =
                   CASE outcome = "no_runtime" ->
                          [s EXCEPT !.ret = -1, !.touched = TRUE]
                     [] outcome = "no_context" ->
                          [s EXCEPT !.ret = -2, !.touched = TRUE,
                                    !.g_runtime = NULL]
                     [] OTHER ->
                          [s EXCEPT !.touched = TRUE,
                                    !.made = @ + 1,
                                    !.g_runtime = shim.made + 1,
                                    !.g_context = shim.made + 1,
                                    !.global = NewGlobal,
                                    !.jobs = <<>>]
      /\ UNCHANGED <<host, options, timeout_, sandbox>>

\* qjs_destroy: frees the context and the runtime that exist, with all they
\* hold, and clears the host callback.
qjs_destroy ==
  /\ shim' = [ShimCall(shim, "qjs_destroy") EXCEPT
                !.touched = shim.g_context # NULL \/ shim.g_runtime # NULL,
                !.g_context = NULL,
                !.g_runtime = NULL,
                !.g_host_callback = FALSE,
                !.global = NewGlobal,
                !.jobs = <<>>]
  /\ UNCHANGED <<host, options, timeout_, sandbox>>

\* What a pending job of the shim's runtime does when it runs: complete,
\* complete after it queued itself again, or fail (JS_ExecutePendingJob < 0).
ShimJobKinds == {"ok", "loop", "fail"}

\* The safety limit of qjs_execute_pending_jobs.
JobLimit == 10000

\* One turn of the loop of qjs_execute_pending_jobs on the state st of the
\* loop: JS_ExecutePendingJob runs the first job; 0 (no job) and a negative
\* result end the loop, a positive one counts and tests the limit.
PendingJobTurn(st) ==
  IF st.done THEN st
  ELSE IF st.q = <<>> THEN [st EXCEPT !.done = TRUE]
  ELSE LET job == Head(st.q)
           q2 == IF job = "loop" THEN Append(Tail(st.q), "loop")
                                  ELSE Tail(st.q)
       IN  IF job = "fail"
           THEN [st EXCEPT !.q = q2, !.executed = @ + 1, !.failed = TRUE,
                           !.done = TRUE]
           ELSE [st EXCEPT !.q = q2, !.executed = @ + 1,
                           !.count = @ + 1,
                           !.done = st.count + 1 > JobLimit]

RECURSIVE PendingJobTurns(_, _)
\* The next n turns of the loop, the first half of them before the second.
PendingJobTurns(st, n) ==
  IF n = 0 THEN st
  ELSE IF n = 1 THEN PendingJobTurn(st)
  ELSE LET half == PendingJobTurns(st, n \div 2)
       IN  IF half.done THEN half ELSE PendingJobTurns(half, n - (n \div 2))

\* The whole loop: every turn but the last counts a job, so it has ended
\* after JobLimit + 2 turns.
PendingJobLoop(st) == PendingJobTurns(st, JobLimit + 2)

\* qjs_execute_pending_jobs: -1 without a context, else the count the loop
\* ends with.
qjs_execute_pending_jobs ==
  LET s == ShimCall(shim, "qjs_execute_pending_jobs")
      end == PendingJobLoop([q |-> shim.jobs, count |-> 0, executed |-> 0,
                             failed |-> FALSE, done |-> FALSE])
  IN  /\ shim' = IF shim.g_context = NULL
                 THEN [s EXCEPT !.ret = -1]
                 ELSE [s EXCEPT !.ret = end.count, !.touched = TRUE,
                                !.jobs = end.q, !.executed = end.executed,
                                !.jobFailed = end.failed]
      /\ UNCHANGED <<host, options, timeout_, sandbox>>

\* ---- the WASM shim: timers -------------------------------------------------
\* What a script gives setTimeout as its first argument: a function, one that
\* throws, one that calls setTimeout with itself again, or no function.
TimerCallbacks == {"fn", "throws", "again", "notfn"}

\* JS_IsFunction of such a value.
IsFunction(cb) == cb # "notfn"

\* The ids the host fires and scripts clear: those handed out, 0, and one
\* that was not handed out yet.
TimerIds == 0..(MaxTimers + 1)

RECURSIVE id_str(_)
\* snprintf(id_str, sizeof(id_str), "%d", timer_id) of a timer id >= 0: its
\* decimal digits.
id_str(n) ==
  LET digit == <<"0", "1", "2", "3", "4", "5", "6", "7", "8", "9">>[(n % 10) + 1]
  IN  IF n < 10 THEN <<digit>> ELSE Append(id_str(n \div 10), digit)

\* JS_SetPropertyStr(timers, key, cb) on the __timers object t.
SetTimer(t, key, cb) ==
  [defined |-> TRUE,
   at |-> {e \in t.at : e.key # key} \cup {[key |-> key, cb |-> cb]}]

DeleteTimerNever(t, key) == t

\* JS_DeleteProperty(timers, key) on the __timers object t.
DeleteTimer(t, key) == [t EXCEPT !.at = {e \in @ : e.key # key}]

\* JS_GetPropertyStr(timers, key): the values stored under key (none or one).
GetTimer(t, key) == {e.cb : e \in {e \in t.at : e.key = key}}

\* js_set_timeout called with argc arguments, the first of them cb: -1 for
\* fewer than two; else the next id, cb stored under it in __timers (which is
\* created when the global is undefined), and the id returned.
js_set_timeout(s, cb, argc) ==
  IF argc < 2 THEN [s |-> s, ret |-> -1]
  ELSE LET timer_id == s.g_timer_id + 1
       IN  [s |-> [s EXCEPT !.g_timer_id = timer_id,
                            !.global.timers = SetTimer(@, id_str(timer_id), cb),
                            !.returned = Append(@, timer_id)],
            ret |-> timer_id]

\* js_clear_timeout called with argc arguments, the first of them the number
\* id: removes the callback stored under it when __timers is defined.
js_clear_timeout(s, id, argc) ==
  IF argc < 1 THEN s
  ELSE IF s.global.timers.defined
       THEN [s EXCEPT !.global.timers = DeleteTimer(@, id_str(id)),
                      !.spent = IF GetTimer(s.global.timers, id_str(id)) = {}
                                THEN @ ELSE @ \cup {id}]
       ELSE s

\* JS_Call of a timer callback cb, stored under id: the call is recorded, and
\* a callback of kind "again" registers itself with setTimeout.
CallTimer(s, id, cb) ==
  LET t == [s EXCEPT !.calls = Append(@, id)]
  IN  IF cb = "again" /\ "setTimeout" \in s.global.fns
      THEN js_set_timeout(t, cb, 2).s
      ELSE t

\* qjs_fire_timer(timer_id): nothing without a context or without __timers;
\* else the value stored under the id, when it is a function, is called and
\* then deleted from the __timers object read before the call.
qjs_fire_timer(timer_id) ==
  LET s == [ShimCall(shim, "qjs_fire_timer") EXCEPT !.arg = timer_id]
      key == id_str(timer_id)
      found == GetTimer(shim.global.timers, key)
  IN  /\ \A cb \in found :
           cb = "again" /\ "setTimeout" \in shim.global.fns =>
             shim.g_timer_id < MaxTimers
      /\ shim' =
           IF shim.g_context = NULL THEN s
           ELSE IF ~shim.global.timers.defined THEN [s EXCEPT !.touched = TRUE]
           ELSE IF \E cb \in found : IsFunction(cb)
           THEN LET cb == CHOOSE cb \in found : TRUE
                    after == CallTimer(s, timer_id, cb)
                IN  [after EXCEPT !.touched = TRUE,
                                  !.global.timers = DeleteTimer(@, key),
                                  !.spent = @ \cup {timer_id}]
           ELSE [s EXCEPT !.touched = TRUE]
      /\ UNCHANGED <<host, options, timeout_, sandbox>>

\* qjs_install_timer_functions: nothing without a context; else a new, empty
\* __timers object and the globals setTimeout and clearTimeout.
qjs_install_timer_functions ==
  LET s == ShimCall(shim, "qjs_install_timer_functions")
  IN  /\ shim' =
           IF shim.g_context = NULL THEN s
           ELSE [s EXCEPT !.touched = TRUE,
                          !.global.timers = [defined |-> TRUE, at |-> {}],
                          !.global.fns = @ \cup {"setTimeout", "clearTimeout"}]
      /\ UNCHANGED <<host, options, timeout_, sandbox>>

\* ---- the WASM shim: evaluation ----------------------------------------------
\* The scripts the host evaluates: an expression, a throw, one that queues a
\* job, and calls of setTimeout and clearTimeout.
PlainScripts == {[f |-> "value"], [f |-> "throw"]}
ShimJobScripts == {[f |-> "job", k |-> k] : k \in ShimJobKinds}
SetTimeoutScripts ==
  {[f |-> "setTimeout", cb |-> cb, argc |-> n] : cb \in TimerCallbacks,
                                                 n \in {1, 2}}
ClearTimeoutScripts ==
  {[f |-> "clearTimeout", id |-> i, argc |-> 1] : i \in TimerIds}

\* JS_Eval of a script in the shim's context, with what JS_ToCString gives
\* for the JSON text of its value, or for its exception.
ShimEval(s, code) ==
  CASE code.f = "value" ->
         [s |-> s, exc |-> FALSE, val |-> <<"2">>]
    [] code.f = "throw" ->
         [s |-> s, exc |-> TRUE, val |-> <<"Error: boom">>]
    [] code.f = "job" ->
         [s |-> [s EXCEPT !.jobs = Append(@, code.k)], exc |-> FALSE,
          val |-> <<"{}">>]
    [] code.f = "setTimeout" ->
         IF "setTimeout" \in s.global.fns
         THEN LET r == js_set_timeout(s, code.cb, code.argc)
              IN  [s |-> r.s, exc |-> FALSE,
                   val |-> IF r.ret < 0 THEN <<"-">> \o id_str(-r.ret)
                                        ELSE id_str(r.ret)]
         ELSE [s |-> s, exc |-> TRUE,
               val |-> <<"ReferenceError: setTimeout is not defined">>]
    [] code.f = "clearTimeout" ->
         IF "clearTimeout" \in s.global.fns
         THEN [s |-> js_clear_timeout(s, code.id, code.argc), exc |-> FALSE,
               val |-> <<"undefined">>]
         ELSE [s |-> s, exc |-> TRUE,
               val |-> <<"ReferenceError: clearTimeout is not defined">>]
    [] OTHER -> [s |-> s, exc |-> FALSE, val |-> <<"undefined">>]

\* The scripts within the bounds of the model in the state s.
WithinBounds(s, code) ==
  s.g_context # NULL =>
    /\ code.f = "job" => Len(s.jobs) < MaxJobs
    /\ code.f = "setTimeout" /\ "setTimeout" \in s.global.fns =>
         s.g_timer_id < MaxTimers

\* sprintf(error_json, "{\"error\":\"%s\"}", msg).
ErrorJson(msg) == <<"{\"error\":\"">> \o msg \o <<"\"}">>

\* qjs_eval(code): the error JSON without a context; else the JSON text of
\* the value, or the error JSON of the exception.
qjs_eval(code) ==
  LET s == ShimCall(shim, "qjs_eval")
      r == ShimEval(s, code)
  IN  /\ WithinBounds(shim, code)
      /\ shim' =
           IF shim.g_context = NULL
           THEN [s EXCEPT !.str = <<"{\"error\":\"Context not initialized\"}">>]
           ELSE [r.s EXCEPT !.touched = TRUE,
                            !.str = IF r.exc THEN ErrorJson(r.val) ELSE r.val]
      /\ UNCHANGED <<host, options, timeout_, sandbox>>

\* qjs_eval_void(code): -1 without a context and for an exception, else 0.
qjs_eval_void(code) ==
  LET s == ShimCall(shim, "qjs_eval_void")
      r == ShimEval(s, code)
  IN  /\ WithinBounds(shim, code)
      /\ shim' =
           IF shim.g_context = NULL
           THEN [s EXCEPT !.ret = -1]
           ELSE [r.s EXCEPT !.touched = TRUE,
                            !.ret = IF r.exc THEN -1 ELSE 0]
      /\ UNCHANGED <<host, options, timeout_, sandbox>>

\* A WASM instance that queues jobs and runs them.
NextJobs ==
  \/ \E o \in InitOutcomes : qjs_init(o)
  \/ qjs_destroy
  \/ \E code \in ShimJobScripts : qjs_eval_void(code)
  \/ \E code \in PlainScripts : qjs_eval(code)
  \/ qjs_execute_pending_jobs

SpecJobs == Init /\ [][NextJobs]_vars

\* C38: qjs_execute_pending_jobs returns -1 without a context and when a job
\* failed, else the number of jobs it executed, and one call executes at
\* most 10000 jobs.
C38_ExecutePendingJobs ==
  shim.op = "qjs_execute_pending_jobs" =>
    /\ shim.executed <= 10000
    /\ shim.ret = IF ~shim.touched \/ shim.jobFailed THEN -1
                  ELSE shim.executed

\* A WASM instance whose scripts set and clear timers and whose host fires
\* them.
NextTimers ==
  \/ \E o \in InitOutcomes : qjs_init(o)
  \/ qjs_destroy
  \/ qjs_install_timer_functions
  \/ \E code \in SetTimeoutScripts : qjs_eval(code)
  \/ \E code \in ClearTimeoutScripts : qjs_eval_void(code)
  \/ \E id \in TimerIds : qjs_fire_timer(id)

SpecTimers == Init /\ [][NextTimers]_vars

\* C39: setTimeout(cb, d) returns an id larger than every id returned
\* before and stores cb under it; qjs_fire_timer(id) calls the function
\* stored under id once and removes it, and calls nothing for an id that is
\* not registered or that was fired or cleared before; clearTimeout(id)
\* removes the timer without a call; firing or clearing an id leaves the
\* timers of all other ids in place.
C39_TimersOneShot ==
  [][/\ \A i \in 1..Len(shim'.returned) : \A j \in 1..Len(shim'.returned) :
          i < j => shim'.returned[i] < shim'.returned[j]
     /\ \A e \in shim'.global.timers.at :
          \E i \in 1..Len(shim'.returned) : e.key = id_str(shim'.returned[i])
     /\ \A code \in SetTimeoutScripts :
          /\ qjs_eval(code)
          /\ code.argc = 2
          /\ shim.g_context # NULL
          /\ "setTimeout" \in shim.global.fns
          => /\ Len(shim'.returned) = Len(shim.returned) + 1
             /\ shim'.str = id_str(shim'.returned[Len(shim'.returned)])
             /\ GetTimer(shim'.global.timers, shim'.str) = {code.cb}
             /\ shim.global.timers.at \subseteq shim'.global.timers.at
             /\ shim'.calls = <<>>
     /\ \A id \in TimerIds : qjs_fire_timer(id) =>
          LET key == id_str(id)
              cbs == {cb \in GetTimer(shim.global.timers, key) :
                        IsFunction(cb)}
          IN  /\ shim'.calls = IF shim.g_context # NULL /\ cbs # {}
                                THEN <<id>> ELSE <<>>
              /\ id \in shim.spent => shim'.calls = <<>>
              /\ \A cb \in GetTimer(shim'.global.timers, key) :
                   ~IsFunction(cb)
              /\ \A e \in shim.global.timers.at :
                   e.key # key => e \in shim'.global.timers.at
     /\ \A code \in ClearTimeoutScripts :
          /\ qjs_eval_void(code)
          /\ shim.g_context # NULL
          /\ "clearTimeout" \in shim.global.fns
          => /\ GetTimer(shim'.global.timers, id_str(code.id)) = {}
             /\ shim'.calls = <<>>
             /\ \A e \in shim.global.timers.at :
                  e.key # id_str(code.id) => e \in shim'.global.timers.at]_vars

\* A timer that was fired or cleared is fired again and nothing is called,
\* while another timer is still registered.
C39_Witness ==
  /\ shim.op = "qjs_fire_timer"
  /\ shim.arg \in shim.spent
  /\ shim.calls = <<>>
  /\ shim.global.timers.at # {}

\* ---- the WASM shim: globals, host callback, install functions ---------------
\* JSON texts the host passes to qjs_set_global_json.
JsonInputs == {"1", " 1", "{"}

\* JS_ParseJSON of such a text: its value, or an exception for text that
\* is no JSON.
ParseJSON(text) ==
  CASE text = "1" -> Val("number", 1)
    [] text = " 1" -> Val("number", 1)
    [] OTHER -> Val("exception", 0)

\* JS_ToCString of JS_JSONStringify of a value: the digits of a number; an
\* undefined value gives undefined, whose string is "undefined".
StringifyJSON(v) ==
  CASE v.kind = "number" -> id_str(v.val)
    [] OTHER -> <<"undefined">>

\* qjs_set_global_json("x", json_value): -1 without a context or when the
\* text does not parse, else the global is set and 0 returned.
qjs_set_global_json(json_value) ==
  LET s == ShimCall(shim, "qjs_set_global_json")
      value == ParseJSON(json_value)
  IN  /\ shim' =
           IF shim.g_context = NULL THEN [s EXCEPT !.ret = -1]
           ELSE IF value.kind = "exception"
           THEN [s EXCEPT !.ret = -1, !.touched = TRUE]
           ELSE [s EXCEPT !.touched = TRUE, !.global.x = value]
      /\ UNCHANGED <<host, options, timeout_, sandbox>>

\* qjs_get_global_json("x"): "null" without a context, else the JSON text of
\* the global.
qjs_get_global_json ==
  LET s == ShimCall(shim, "qjs_get_global_json")
  IN  /\ shim' =
           IF shim.g_context = NULL THEN [s EXCEPT !.str = <<"null">>]
           ELSE [s EXCEPT !.touched = TRUE,
                          !.str = StringifyJSON(shim.global.x)]
      /\ UNCHANGED <<host, options, timeout_, sandbox>>

\* qjs_set_host_callback(callback), callback a function pointer or NULL.
qjs_set_host_callback(callback) ==
  /\ shim' = [ShimCall(shim, "qjs_set_host_callback") EXCEPT
                !.g_host_callback = callback # NULL]
  /\ UNCHANGED <<host, options, timeout_, sandbox>>

\* What the install functions define in the global scope.
Installs ==
  [qjs_install_host_functions |-> {"__sendToHost"},
   qjs_install_console |-> {"console"}]

\* qjs_install_host_functions and qjs_install_console: nothing without a
\* context, else the global is defined.
Install(f) ==
  LET s == ShimCall(shim, f)
  IN  /\ shim' = IF shim.g_context = NULL THEN s
                 ELSE [s EXCEPT !.touched = TRUE,
                                !.global.fns = @ \cup Installs[f]]
      /\ UNCHANGED <<host, options, timeout_, sandbox>>

qjs_install_host_functions == Install("qjs_install_host_functions")

qjs_install_console == Install("qjs_install_console")

\* A WASM instance through its life: created, used, destroyed, created again.
NextShim ==
  \/ \E o \in InitOutcomes : qjs_init(o)
  \/ qjs_destroy
  \/ \E code \in PlainScripts : qjs_eval(code)
  \/ \E code \in PlainScripts : qjs_eval_void(code)
  \/ \E json \in JsonInputs : qjs_set_global_json(json)
  \/ qjs_get_global_json
  \/ \E callback \in {NULL, 1} : qjs_set_host_callback(callback)
  \/ qjs_install_host_functions
  \/ qjs_install_console
  \/ qjs_install_timer_functions
  \/ qjs_fire_timer(1)
  \/ qjs_execute_pending_jobs

SpecShim == Init /\ [][NextShim]_vars

\* The runtime, the context and all the engine holds, as the shim sees them.
ShimEngine(s) == <<s.g_runtime, s.g_context, s.made, s.global, s.jobs>>

\* C40: qjs_init with a runtime returns 0 and keeps runtime and context;
\* without a context every operation takes its error path and leaves the
\* engine alone (qjs_eval gives the "Context not initialized" error JSON,
\* qjs_eval_void, qjs_set_global_json and qjs_execute_pending_jobs give -1,
\* qjs_get_global_json gives "null", qjs_fire_timer and the install functions
\* do nothing); qjs_destroy leaves no runtime, no context and no host
\* callback, also when there was none; qjs_init after it makes a runtime and
\* a context that did not exist before.
C40_ShimLifecycle ==
  [][/\ shim'.op = "qjs_init" /\ shim.g_runtime # NULL =>
          /\ shim'.ret = 0
          /\ ~shim'.touched
          /\ ShimEngine(shim') = ShimEngine(shim)
          /\ shim'.g_host_callback = shim.g_host_callback
     /\ shim'.op = "qjs_init" /\ shim.g_runtime = NULL /\ shim'.ret = 0 =>
          /\ shim'.g_runtime # NULL
          /\ shim'.g_runtime > shim.made
          /\ shim'.g_context = shim'.g_runtime
          /\ shim'.global = NewGlobal
          /\ shim'.jobs = <<>>
     /\ shim'.op = "qjs_destroy" =>
          /\ shim'.g_runtime = NULL
          /\ shim'.g_context = NULL
          /\ ~shim'.g_host_callback
          /\ shim.g_runtime = NULL => ~shim'.touched
     /\ shim.g_context = NULL /\ shim'.op \notin {"qjs_init", "qjs_destroy"} =>
          /\ ~shim'.touched
          /\ ShimEngine(shim') = ShimEngine(shim)
          /\ shim'.g_timer_id = shim.g_timer_id
          /\ shim'.calls = <<>>
          /\ \A code \in PlainScripts : qjs_eval(code) =>
               shim'.str = <<"{\"error\":\"Context not initialized\"}">>
          /\ \A code \in PlainScripts : qjs_eval_void(code) => shim'.ret = -1
          /\ \A json \in JsonInputs : qjs_set_global_json(json) =>
               shim'.ret = -1
          /\ qjs_execute_pending_jobs => shim'.ret = -1
          /\ qjs_get_global_json => shim'.str = <<"null">>]_vars

\* qjs_init, after a runtime was destroyed, made the second runtime.
C40_Witness ==
  /\ shim.op = "qjs_init"
  /\ shim.ret = 0
  /\ shim.touched
  /\ shim.g_runtime = 2

====
